---- MODULE Spec2Model ----
(***************************************************************************)
(* Model of chatom's core: the single-dispatch mention renderers            *)
(* (chatom/base/mention.py and the per-platform mention.py modules), the    *)
(* backend-name keyed renderers, the regular-expression mention parser,     *)
(* Channel construction (chatom/base/channel.py), and the format conversion *)
(* and response constructors of Message (chatom/base/message.py).           *)
(*                                                                          *)
(* Python strings are sequences of one-character strings, so that string    *)
(* formatting is concatenation and the regular expressions are matched      *)
(* character by character.                                                  *)
(***************************************************************************)
EXTENDS Integers, Sequences, FiniteSets, TLC

VARIABLES user, channel, backend, content, out, heap, args

vars == <<user, channel, backend, content, out, heap, args>>

(***************************************************************************)
(* Bounds                                                                   *)
(***************************************************************************)
MaxIdLen == 1

MaxPieces == 3

(***************************************************************************)
(* String helpers                                                           *)
(***************************************************************************)
RECURSIVE SeqsUpTo(_, _)
SeqsUpTo(chars, n) ==
    IF n = 0 THEN {<<>>}
    ELSE LET shorter == SeqsUpTo(chars, n - 1)
         IN  shorter \cup {Append(s, c) : s \in shorter, c \in chars}

\* Python truthiness of a str: the empty string is falsy.
Truthy(s) == s # <<>>

\* Python's "a or b": a when a is truthy, b otherwise.
Or(a, b) == IF Truthy(a) THEN a ELSE b

UpperToLower ==
    [c \in {"D", "I", "S", "C", "O", "R", "L", "A", "K", "Y", "M", "P", "H", "N"} |->
        CASE c = "D" -> "d" [] c = "I" -> "i" [] c = "S" -> "s" [] c = "C" -> "c"
          [] c = "O" -> "o" [] c = "R" -> "r" [] c = "L" -> "l" [] c = "A" -> "a"
          [] c = "K" -> "k" [] c = "Y" -> "y" [] c = "M" -> "m" [] c = "P" -> "p"
          [] c = "H" -> "h" [] c = "N" -> "n"]

\* str.lower()
lower(s) == [i \in DOMAIN s |-> IF s[i] \in DOMAIN UpperToLower THEN UpperToLower[s[i]] ELSE s[i]]

(***************************************************************************)
(* Entities                                                                 *)
(***************************************************************************)
\* The class statements: each class's base class.
Bases ==
    [c \in {"DiscordUser", "SlackUser", "SymphonyUser", "IRCUser", "MatrixUser", "EmailUser",
            "User", "DiscordChannel", "SlackChannel", "SymphonyChannel", "Channel",
            "Identifiable", "BaseModel"} |->
        CASE c \in {"DiscordUser", "SlackUser", "SymphonyUser", "IRCUser", "MatrixUser", "EmailUser"} -> "User"
          [] c \in {"DiscordChannel", "SlackChannel", "SymphonyChannel"} -> "Channel"
          [] c \in {"User", "Channel"} -> "Identifiable"
          [] c = "Identifiable" -> "BaseModel"
          [] c = "BaseModel" -> "object"]

RECURSIVE isinstance(_, _)
isinstance(kind, cls) ==
    IF kind = cls THEN TRUE
    ELSE IF kind = "object" THEN FALSE
    ELSE isinstance(Bases[kind], cls)

UserKinds == {"User", "DiscordUser", "SlackUser", "SymphonyUser", "IRCUser", "MatrixUser", "EmailUser"}

ChannelKinds == {"Channel", "DiscordChannel", "SlackChannel", "SymphonyChannel"}

IdChars == {"7", "U"}

Ids == SeqsUpTo(IdChars, MaxIdLen)

Names == {<<>>, <<"A", "l">>}

Handles == {<<>>, <<"a", "l">>}

Emails == {<<>>, <<"a", "@", "b">>}

DisplayNames == {<<>>, <<"D">>}

GlobalNames == {<<>>, <<"G">>}

User_set_display_name_handle_first(u) ==
    IF ~Truthy(u.display_name)
    THEN [u EXCEPT !.display_name = Or(u.handle, Or(u.name, u.id))]
    ELSE u

\* User._set_display_name: display_name is derived only when none was supplied.
User_set_display_name(u) ==
    IF ~Truthy(u.display_name)
    THEN [u EXCEPT !.display_name = Or(u.name, Or(u.handle, u.id))]
    ELSE u

\* DiscordUser._set_display_name: global_name comes first (None and "" are both falsy).
DiscordUser_set_display_name(u) ==
    IF ~Truthy(u.display_name)
    THEN [u EXCEPT !.display_name = Or(u.global_name, Or(u.name, Or(u.handle, u.id)))]
    ELSE u

\* Construction of a user of the given class: the fields as supplied, then the
\* class's "after" validator.
NewUser(kind, id, name, handle, email, display_name, global_name) ==
    LET raw == [kind |-> kind, id |-> id, name |-> name, handle |-> handle, email |-> email,
                display_name |-> display_name, global_name |-> global_name]
    IN  IF kind = "DiscordUser" THEN DiscordUser_set_display_name(raw)
        ELSE User_set_display_name(raw)

\* global_name is a field of DiscordUser only.
GlobalNamesOf(kind) == IF kind = "DiscordUser" THEN GlobalNames ELSE {<<>>}

Users ==
    UNION {{NewUser(k, i, n, h, e, d, g) :
               i \in Ids, n \in Names, h \in Handles, e \in Emails, d \in DisplayNames,
               g \in GlobalNamesOf(k)} : k \in UserKinds}

NewChannel(kind, id, name) == [kind |-> kind, id |-> id, name |-> name]

Channels == {NewChannel(k, i, n) : k \in ChannelKinds, i \in Ids, n \in Names}

NoUser == NewUser("User", <<>>, <<>>, <<>>, <<>>, <<>>, <<>>)

NoChannel == NewChannel("Channel", <<>>, <<>>)

(***************************************************************************)
(* Mention rendering: functools.singledispatch                              *)
(***************************************************************************)
\* singledispatch: the implementation registered for the first class of the
\* argument's MRO that has one; the undecorated function is registered for object.
RECURSIVE dispatch(_, _)
dispatch(registry, cls) ==
    IF cls \in registry THEN cls
    ELSE dispatch(registry, Bases[cls])

\* The classes mention_user has an implementation for.
mention_user_registry ==
    {"object", "DiscordUser", "SlackUser", "SymphonyUser", "IRCUser", "MatrixUser", "EmailUser"}

\* The classes mention_channel has an implementation for.
mention_channel_registry == {"object"}

base_mention_user_name(u) == u.name

\* chatom/base/mention.py: the default implementation.
base_mention_user(u) == u.display_name

discord_mention_user_no_bang(u) == <<"<", "@">> \o u.id \o <<">">>

discord_mention_user(u) == <<"<", "@", "!">> \o u.id \o <<">">>

slack_mention_user(u) == <<"<", "@">> \o u.id \o <<">">>

symphony_mention_user(u) == <<"@">> \o u.name

irc_mention_user(u) == IF Truthy(u.handle) THEN u.handle ELSE u.name

matrix_mention_user(u) ==
    IF Truthy(u.handle)
    THEN <<"@">> \o u.handle \o <<":", "m", "a", "t", "r", "i", "x", ".", "o", "r", "g">>
    ELSE u.name

email_mention_user(u) ==
    IF Truthy(u.email)
    THEN <<"<", "a", " ", "h", "r", "e", "f", "=", "'", "m", "a", "i", "l", "t", "o", ":">>
         \o u.email \o <<"'", ">">> \o u.name \o <<"<", "/", "a", ">">>
    ELSE u.name

\* The dispatcher chatom.base.mention_user with the six registered implementations.
mention_user(u) ==
    LET impl == dispatch(mention_user_registry, u.kind)
    IN  CASE impl = "DiscordUser" -> discord_mention_user(u)
          [] impl = "SlackUser" -> slack_mention_user(u)
          [] impl = "SymphonyUser" -> symphony_mention_user(u)
          [] impl = "IRCUser" -> irc_mention_user(u)
          [] impl = "MatrixUser" -> matrix_mention_user(u)
          [] impl = "EmailUser" -> email_mention_user(u)
          [] OTHER -> base_mention_user(u)

\* SymphonyBackend.mention_user: _mention_user is the function symphony/mention.py defines.
SymphonyBackend_mention_user(u) ==
    IF isinstance(u.kind, "SymphonyUser") THEN symphony_mention_user(u)
    ELSE <<"<", "m", "e", "n", "t", "i", "o", "n", " ", "u", "i", "d", "=", "\"">> \o u.id \o <<"\"", "/", ">">>

base_mention_channel(c) ==
    IF Truthy(c.name) THEN <<"#">> \o c.name
    ELSE <<"#">> \o c.id

mention_channel_with_overrides(c) ==
    IF c.kind \in {"DiscordChannel", "SlackChannel"} /\ Truthy(c.id)
    THEN <<"<", "#">> \o c.id \o <<">">>
    ELSE base_mention_channel(c)

\* The dispatcher chatom.base.mention_channel: nothing but the default is registered.
mention_channel(c) ==
    LET impl == dispatch(mention_channel_registry, c.kind)
    IN  CASE impl = "object" -> base_mention_channel(c)

(***************************************************************************)
(* Mention rendering keyed by backend name                                  *)
(***************************************************************************)
DiscordNames == {<<"d", "i", "s", "c", "o", "r", "d">>, <<"D", "i", "s", "c", "o", "r", "d">>}

SlackNames == {<<"s", "l", "a", "c", "k">>, <<"S", "L", "A", "C", "K">>}

SymphonyNames == {<<"s", "y", "m", "p", "h", "o", "n", "y">>, <<"S", "y", "m", "p", "h", "o", "n", "y">>}

OtherNames == {<<"i", "r", "c">>, <<>>}

BackendNames == DiscordNames \cup SlackNames \cup SymphonyNames \cup OtherNames

mention_user_for_backend_case_sensitive(u, b) ==
    IF b = <<"d", "i", "s", "c", "o", "r", "d">> \/ b = <<"s", "l", "a", "c", "k">>
    THEN IF Truthy(u.id) THEN <<"<", "@">> \o u.id \o <<">">> ELSE u.display_name
    ELSE IF b = <<"s", "y", "m", "p", "h", "o", "n", "y">>
    THEN IF Truthy(u.id)
         THEN <<"<", "m", "e", "n", "t", "i", "o", "n", " ", "u", "i", "d", "=", "\"">> \o u.id \o <<"\"", "/", ">">>
         ELSE IF Truthy(u.email)
         THEN <<"<", "m", "e", "n", "t", "i", "o", "n", " ", "e", "m", "a", "i", "l", "=", "\"">> \o u.email \o <<"\"", "/", ">">>
         ELSE <<"@">> \o u.display_name
    ELSE u.display_name

mention_user_for_backend(u, b) ==
    LET backend_lower == lower(b)
    IN  IF backend_lower = <<"d", "i", "s", "c", "o", "r", "d">>
        THEN IF Truthy(u.id) THEN <<"<", "@">> \o u.id \o <<">">> ELSE u.display_name
        ELSE IF backend_lower = <<"s", "l", "a", "c", "k">>
        THEN IF Truthy(u.id) THEN <<"<", "@">> \o u.id \o <<">">> ELSE u.display_name
        ELSE IF backend_lower = <<"s", "y", "m", "p", "h", "o", "n", "y">>
        THEN IF Truthy(u.id)
             THEN <<"<", "m", "e", "n", "t", "i", "o", "n", " ", "u", "i", "d", "=", "\"">> \o u.id \o <<"\"", "/", ">">>
             ELSE IF Truthy(u.email)
             THEN <<"<", "m", "e", "n", "t", "i", "o", "n", " ", "e", "m", "a", "i", "l", "=", "\"">> \o u.email \o <<"\"", "/", ">">>
             ELSE <<"@">> \o u.display_name
        ELSE u.display_name

mention_channel_for_backend_name_first(c, b) ==
    IF Truthy(c.name) THEN <<"#">> \o c.name
    ELSE IF lower(b) \in {<<"d", "i", "s", "c", "o", "r", "d">>, <<"s", "l", "a", "c", "k">>} /\ Truthy(c.id)
    THEN <<"<", "#">> \o c.id \o <<">">>
    ELSE <<"#">> \o c.id

mention_channel_for_backend(c, b) ==
    LET backend_lower == lower(b)
    IN  IF backend_lower \in {<<"d", "i", "s", "c", "o", "r", "d">>, <<"s", "l", "a", "c", "k">>}
        THEN IF Truthy(c.id) THEN <<"<", "#">> \o c.id \o <<">">>
             ELSE <<"#">> \o c.name
        ELSE IF Truthy(c.name) THEN <<"#">> \o c.name
             ELSE <<"#">> \o c.id

(***************************************************************************)
(* User mentions: the arguments are drawn by Init; each action is one call  *)
(* on them, made while no call has returned yet, and records the function   *)
(* called and the string it returned.                                       *)
(***************************************************************************)
NoOut == [fn |-> "none", val |-> <<>>]

\* No objects are allocated and no further arguments are passed in the mention calls.
NoHeap == <<>>

NoArgs == <<>>

Init ==
    /\ user \in Users
    /\ backend \in BackendNames
    /\ channel = NoChannel
    /\ content = <<>>
    /\ out = NoOut
    /\ heap = NoHeap
    /\ args = NoArgs

MentionUser ==
    /\ out = NoOut
    /\ out' = [fn |-> "mention_user", val |-> mention_user(user)]
    /\ UNCHANGED <<user, channel, backend, content, heap, args>>

SymphonyBackendMentionUser ==
    /\ out = NoOut
    /\ out' = [fn |-> "SymphonyBackend.mention_user", val |-> SymphonyBackend_mention_user(user)]
    /\ UNCHANGED <<user, channel, backend, content, heap, args>>

MentionUserForBackend ==
    /\ out = NoOut
    /\ out' = [fn |-> "mention_user_for_backend", val |-> mention_user_for_backend(user, backend)]
    /\ UNCHANGED <<user, channel, backend, content, heap, args>>

Next == MentionUser \/ SymphonyBackendMentionUser \/ MentionUserForBackend

Spec == Init /\ [][Next]_vars

(***************************************************************************)
(* Channel mentions                                                         *)
(***************************************************************************)
ChannelInit ==
    /\ channel \in Channels
    /\ backend \in BackendNames
    /\ user = NoUser
    /\ content = <<>>
    /\ out = NoOut
    /\ heap = NoHeap
    /\ args = NoArgs

MentionChannel ==
    /\ out = NoOut
    /\ out' = [fn |-> "mention_channel", val |-> mention_channel(channel)]
    /\ UNCHANGED <<user, channel, backend, content, heap, args>>

MentionChannelForBackend ==
    /\ out = NoOut
    /\ out' = [fn |-> "mention_channel_for_backend", val |-> mention_channel_for_backend(channel, backend)]
    /\ UNCHANGED <<user, channel, backend, content, heap, args>>

ChannelNext == MentionChannel \/ MentionChannelForBackend

ChannelSpec == ChannelInit /\ [][ChannelNext]_vars

(***************************************************************************)
(* Mention parsing: the compiled patterns and re.finditer                   *)
(***************************************************************************)
\* \d (the ASCII digits), [A-Z] and \s, as far as the strings below use them.
DigitChars == {"0", "1", "2", "3", "4", "5", "6", "7", "8", "9"}

UpperChars ==
    {"A", "B", "C", "D", "E", "F", "G", "H", "I", "J", "K", "L", "M",
     "N", "O", "P", "Q", "R", "S", "T", "U", "V", "W", "X", "Y", "Z"}

SpaceChars == {" ", "\t", "\n"}

\* s[i:i+len(lit)] == lit, i counted from 1.
LitAt(s, i, l) == i + Len(l) - 1 <= Len(s) /\ SubSeq(s, i, i + Len(l) - 1) = l

\* The position after the longest run of characters of class cls starting at j
\* (a greedy cls*).
RECURSIVE RunEnd(_, _, _)
RunEnd(s, j, cls) ==
    IF j <= Len(s) /\ s[j] \in cls THEN RunEnd(s, j + 1, cls) ELSE j

\* The position after the longest run of characters other than c starting at
\* j (a greedy [^c]*).
RECURSIVE RunEndNot(_, _, _)
RunEndNot(s, j, c) ==
    IF j <= Len(s) /\ s[j] # c THEN RunEndNot(s, j + 1, c) ELSE j

NoMatch == [ok |-> FALSE, end |-> 0, g1 |-> <<>>, g2 |-> <<>>]

\* <@!?(\d+)>  and  <@([A-Z0-9]+)>  and  <#(\d+)> : a two-character opener, an
\* optional '!', a non-empty run of the id class, '>'.
MatchAngle(s, i, opener, bang, cls) ==
    LET j0 == i + 2
        j  == IF bang /\ LitAt(s, j0, <<"!">>) THEN j0 + 1 ELSE j0
        k  == RunEnd(s, j, cls)
    IN  IF LitAt(s, i, opener) /\ k > j /\ LitAt(s, k, <<">">>)
        THEN [ok |-> TRUE, end |-> k + 1, g1 |-> SubSeq(s, j, k - 1), g2 |-> <<>>]
        ELSE NoMatch

\* <#([A-Z0-9]+)(?:\|[^>]*)?>
MatchSlackChannel(s, i) ==
    LET j == i + 2
        k == RunEnd(s, j, UpperChars \cup DigitChars)
        n == RunEndNot(s, k + 1, ">")
    IN  IF ~(LitAt(s, i, <<"<", "#">>) /\ k > j) THEN NoMatch
        ELSE IF LitAt(s, k, <<">">>)
        THEN [ok |-> TRUE, end |-> k + 1, g1 |-> SubSeq(s, j, k - 1), g2 |-> <<>>]
        ELSE IF LitAt(s, k, <<"|">>) /\ LitAt(s, n, <<">">>)
        THEN [ok |-> TRUE, end |-> n + 1, g1 |-> SubSeq(s, j, k - 1), g2 |-> <<>>]
        ELSE NoMatch

MatchSymphony_digits(s, i) ==
    LET j == i + 8
        k == RunEnd(s, j, SpaceChars)
        m == k + 5
        n == RunEnd(s, m, DigitChars)
        w == RunEnd(s, n + 1, SpaceChars)
    IN  IF /\ LitAt(s, i, <<"<", "m", "e", "n", "t", "i", "o", "n">>)
           /\ k > j
           /\ LitAt(s, k, <<"u", "i", "d", "=", "\"">>)
           /\ n > m
           /\ LitAt(s, n, <<"\"">>)
           /\ LitAt(s, w, <<"/", ">">>)
        THEN [ok |-> TRUE, end |-> w + 2, g1 |-> SubSeq(s, m, n - 1), g2 |-> <<>>]
        ELSE NoMatch

\* <mention\s+(?:uid="([^"]+)"|email="([^"]+)")\s*/>
MatchSymphony(s, i) ==
    LET j     == i + 8
        k     == RunEnd(s, j, SpaceChars)
        isUid == LitAt(s, k, <<"u", "i", "d", "=", "\"">>)
        isEm  == LitAt(s, k, <<"e", "m", "a", "i", "l", "=", "\"">>)
        m     == IF isUid THEN k + 5 ELSE k + 7
        n     == RunEndNot(s, m, "\"")
        w     == RunEnd(s, n + 1, SpaceChars)
    IN  IF /\ LitAt(s, i, <<"<", "m", "e", "n", "t", "i", "o", "n">>)
           /\ k > j
           /\ (isUid \/ isEm)
           /\ n > m
           /\ LitAt(s, n, <<"\"">>)
           /\ LitAt(s, w, <<"/", ">">>)
        THEN [ok |-> TRUE, end |-> w + 2,
              g1 |-> IF isUid THEN SubSeq(s, m, n - 1) ELSE <<>>,
              g2 |-> IF isUid THEN <<>> ELSE SubSeq(s, m, n - 1)]
        ELSE NoMatch

\* pattern.match at position i (counted from 1) for a compiled pattern, named
\* by its source text. An unmatched group (None) is the empty string.
MatchAt(pattern, s, i) ==
    CASE pattern = "<@!?(\\d+)>" -> MatchAngle(s, i, <<"<", "@">>, TRUE, DigitChars)
      [] pattern = "<@([A-Z0-9]+)>" -> MatchAngle(s, i, <<"<", "@">>, FALSE, UpperChars \cup DigitChars)
      [] pattern = "<mention\\s+(?:uid=\"([^\"]+)\"|email=\"([^\"]+)\")\\s*/>" -> MatchSymphony(s, i)
      [] pattern = "<#(\\d+)>" -> MatchAngle(s, i, <<"<", "#">>, FALSE, DigitChars)
      [] pattern = "<#([A-Z0-9]+)(?:\\|[^>]*)?>" -> MatchSlackChannel(s, i)

\* pattern.finditer(content) from position pos on: the leftmost match, then
\* the scan resumes where that match ended. start and end are Python offsets.
RECURSIVE finditer_overlapping(_, _, _)
finditer_overlapping(pattern, s, pos) ==
    IF pos > Len(s) THEN <<>>
    ELSE LET m == MatchAt(pattern, s, pos)
         IN  IF m.ok
             THEN <<[g1 |-> m.g1, g2 |-> m.g2, start |-> pos - 1, end |-> m.end - 1,
                     g0 |-> SubSeq(s, pos, m.end - 1)]>> \o finditer_overlapping(pattern, s, pos + 1)
             ELSE finditer_overlapping(pattern, s, pos + 1)

RECURSIVE finditer(_, _, _)
finditer(pattern, s, pos) ==
    IF pos > Len(s) THEN <<>>
    ELSE LET m == MatchAt(pattern, s, pos)
         IN  IF m.ok
             THEN <<[g1 |-> m.g1, g2 |-> m.g2, start |-> pos - 1, end |-> m.end - 1,
                     g0 |-> SubSeq(s, pos, m.end - 1)]>> \o finditer(pattern, s, m.end)
             ELSE finditer(pattern, s, pos + 1)

MENTION_PATTERNS ==
    (<<"d", "i", "s", "c", "o", "r", "d">> :> "<@!?(\\d+)>")
    @@ (<<"s", "l", "a", "c", "k">> :> "<@([A-Z0-9]+)>")
    @@ (<<"s", "y", "m", "p", "h", "o", "n", "y">> :> "<mention\\s+(?:uid=\"([^\"]+)\"|email=\"([^\"]+)\")\\s*/>")

CHANNEL_MENTION_PATTERNS ==
    (<<"d", "i", "s", "c", "o", "r", "d">> :> "<#(\\d+)>")
    @@ (<<"s", "l", "a", "c", "k">> :> "<#([A-Z0-9]+)(?:\\|[^>]*)?>")

parse_mentions_default_slack(c, b) ==
    LET backend_lower == lower(b)
        pattern == IF backend_lower \in DOMAIN MENTION_PATTERNS
                   THEN MENTION_PATTERNS[backend_lower] ELSE MENTION_PATTERNS[<<"s", "l", "a", "c", "k">>]
        found == finditer(pattern, c, 1)
    IN  [i \in DOMAIN found |->
            [user_id |-> IF backend_lower = <<"s", "y", "m", "p", "h", "o", "n", "y">> THEN Or(found[i].g1, found[i].g2) ELSE found[i].g1,
             start |-> found[i].start, end |-> found[i].end, raw |-> found[i].g0]]

parse_mentions(c, b) ==
    LET backend_lower == lower(b)
    IN  IF backend_lower \notin DOMAIN MENTION_PATTERNS THEN <<>>
        ELSE LET found == finditer(MENTION_PATTERNS[backend_lower], c, 1)
             IN  [i \in DOMAIN found |->
                     [user_id |-> IF backend_lower = <<"s", "y", "m", "p", "h", "o", "n", "y">>
                                  THEN Or(found[i].g1, found[i].g2)
                                  ELSE found[i].g1,
                      start |-> found[i].start, end |-> found[i].end, raw |-> found[i].g0]]

RECURSIVE dedup(_)
dedup(ids) ==
    IF ids = <<>> THEN <<>>
    ELSE LET front == dedup(SubSeq(ids, 1, Len(ids) - 1))
             last == ids[Len(ids)]
         IN  IF \E i \in DOMAIN front : front[i] = last THEN front ELSE Append(front, last)

extract_mention_ids_dedup(c, b) ==
    LET ms == parse_mentions(c, b) IN dedup([i \in DOMAIN ms |-> ms[i].user_id])

extract_mention_ids(c, b) ==
    LET ms == parse_mentions(c, b) IN [i \in DOMAIN ms |-> ms[i].user_id]

parse_channel_mentions(c, b) ==
    LET backend_lower == lower(b)
    IN  IF backend_lower \notin DOMAIN CHANNEL_MENTION_PATTERNS THEN <<>>
        ELSE LET found == finditer(CHANNEL_MENTION_PATTERNS[backend_lower], c, 1)
             IN  [i \in DOMAIN found |->
                     [channel_id |-> found[i].g1,
                      start |-> found[i].start, end |-> found[i].end, raw |-> found[i].g0]]

extract_channel_ids(c, b) ==
    LET ms == parse_channel_mentions(c, b) IN [i \in DOMAIN ms |-> ms[i].channel_id]

(***************************************************************************)
(* Parsing: Init draws the content, a concatenation of at most MaxPieces    *)
(* pieces, and the backend name; each action is one call.                   *)
(***************************************************************************)
Pieces ==
    {<<"<", "@", "1", ">">>,
     <<"<", "@", "!", "1", "2", ">">>,
     <<"<", "@", "U", "1", ">">>,
     <<"<", "#", "1", ">">>,
     <<"<", "#", "C", "1", "|", "x", ">">>,
     <<"<", "m", "e", "n", "t", "i", "o", "n", " ", "u", "i", "d", "=", "\"", "1", "\"", "/", ">">>,
     <<"<", "m", "e", "n", "t", "i", "o", "n", "\t", " ", "e", "m", "a", "i", "l", "=", "\"", "a", "\"", " ", "/", ">">>,
     <<"<", "@">>,
     <<"<", "#", "C", "1", "|">>,
     <<"<", "m", "e", "n", "t", "i", "o", "n", " ", "u", "i", "d", "=", "\"", "\"", "/", ">">>}

RECURSIVE Concats(_)
Concats(n) ==
    IF n = 0 THEN {<<>>}
    ELSE LET shorter == Concats(n - 1)
         IN  shorter \cup {s \o p : s \in shorter, p \in Pieces}

Contents == Concats(MaxPieces)

ParseBackends == {<<"d", "i", "s", "c", "o", "r", "d">>, <<"S", "L", "A", "C", "K">>, <<"s", "y", "m", "p", "h", "o", "n", "y">>, <<"i", "r", "c">>}

ParseInit ==
    /\ content \in Contents
    /\ backend \in ParseBackends
    /\ user = NoUser
    /\ channel = NoChannel
    /\ out = NoOut
    /\ heap = NoHeap
    /\ args = NoArgs

ParseMentions ==
    /\ out = NoOut
    /\ out' = [fn |-> "parse_mentions", val |-> parse_mentions(content, backend)]
    /\ UNCHANGED <<user, channel, backend, content, heap, args>>

ParseChannelMentions ==
    /\ out = NoOut
    /\ out' = [fn |-> "parse_channel_mentions", val |-> parse_channel_mentions(content, backend)]
    /\ UNCHANGED <<user, channel, backend, content, heap, args>>

ExtractMentionIds ==
    /\ out = NoOut
    /\ out' = [fn |-> "extract_mention_ids", val |-> extract_mention_ids(content, backend)]
    /\ UNCHANGED <<user, channel, backend, content, heap, args>>

ExtractChannelIds ==
    /\ out = NoOut
    /\ out' = [fn |-> "extract_channel_ids", val |-> extract_channel_ids(content, backend)]
    /\ UNCHANGED <<user, channel, backend, content, heap, args>>

ParseNext == ParseMentions \/ ParseChannelMentions \/ ExtractMentionIds \/ ExtractChannelIds

ParseSpec == ParseInit /\ [][ParseNext]_vars

(***************************************************************************)
(* Claims about mention rendering                                           *)
(***************************************************************************)
\* C1: mention_user of a Symphony user, and SymphonyBackend.mention_user of a
\* Symphony user, return the MessageML tag <mention uid="{id}"/> of the user's id.
C1_SymphonyUserMentionIsUidTag ==
    (out.fn \in {"mention_user", "SymphonyBackend.mention_user"} /\ user.kind = "SymphonyUser")
        => out.val = <<"<", "m", "e", "n", "t", "i", "o", "n", " ", "u", "i", "d", "=", "\"">>
                     \o user.id \o <<"\"", "/", ">">>

\* C2: mention_user applies the rule registered for the user's own class when
\* there is one, and returns user.display_name for a user whose class has no
\* registered rule (a base User).
C2_DispatchAndDefault ==
    out.fn = "mention_user" =>
        CASE user.kind = "DiscordUser" -> out.val = discord_mention_user(user)
          [] user.kind = "SlackUser" -> out.val = slack_mention_user(user)
          [] user.kind = "SymphonyUser" -> out.val = symphony_mention_user(user)
          [] user.kind = "IRCUser" -> out.val = irc_mention_user(user)
          [] user.kind = "MatrixUser" -> out.val = matrix_mention_user(user)
          [] user.kind = "EmailUser" -> out.val = email_mention_user(user)
          [] OTHER -> out.val = user.display_name

C2_Witness ==
    /\ out.fn = "mention_user"
    /\ user.kind = "User"
    /\ user.display_name # user.name
    /\ user.name # <<>>
    /\ out.val = user.display_name

C5_PlatformChannelMarkup ==
    (out.fn = "mention_channel" /\ channel.kind \in {"DiscordChannel", "SlackChannel"} /\ channel.id # <<>>)
        => out.val = <<"<", "#">> \o channel.id \o <<">">>

\* C6: mention_user_for_backend, the backend name compared without regard to
\* case: discord and slack give <@{id}> or display_name when there is no id;
\* symphony gives the uid tag, else the email tag, else '@' and display_name;
\* any other name gives display_name.
C6_UserForBackend ==
    out.fn = "mention_user_for_backend" =>
        out.val =
            IF backend \in DiscordNames \cup SlackNames
            THEN IF user.id # <<>> THEN <<"<", "@">> \o user.id \o <<">">> ELSE user.display_name
            ELSE IF backend \in SymphonyNames
            THEN IF user.id # <<>>
                 THEN <<"<", "m", "e", "n", "t", "i", "o", "n", " ", "u", "i", "d", "=", "\"">>
                      \o user.id \o <<"\"", "/", ">">>
                 ELSE IF user.email # <<>>
                 THEN <<"<", "m", "e", "n", "t", "i", "o", "n", " ", "e", "m", "a", "i", "l", "=", "\"">>
                      \o user.email \o <<"\"", "/", ">">>
                 ELSE <<"@">> \o user.display_name
            ELSE user.display_name

C6_Witness ==
    /\ out.fn = "mention_user_for_backend"
    /\ backend = <<"S", "y", "m", "p", "h", "o", "n", "y">>
    /\ user.id = <<>>
    /\ user.email # <<>>
    /\ out.val = <<"<", "m", "e", "n", "t", "i", "o", "n", " ", "e", "m", "a", "i", "l", "=", "\"">>
                 \o user.email \o <<"\"", "/", ">">>

\* C7: mention_channel_for_backend: discord and slack (in any case) give <#{id}>
\* or '#' and the name when there is no id; any other name gives '#' and the
\* name, or '#' and the id when there is no name.
C7_ChannelForBackend ==
    out.fn = "mention_channel_for_backend" =>
        out.val =
            IF backend \in DiscordNames \cup SlackNames
            THEN IF channel.id # <<>> THEN <<"<", "#">> \o channel.id \o <<">">>
                 ELSE <<"#">> \o channel.name
            ELSE IF channel.name # <<>> THEN <<"#">> \o channel.name
                 ELSE <<"#">> \o channel.id

C7_Witness ==
    /\ out.fn = "mention_channel_for_backend"
    /\ backend = <<"S", "L", "A", "C", "K">>
    /\ channel.id # <<>>
    /\ channel.name # <<>>
    /\ out.val = <<"<", "#">> \o channel.id \o <<">">>

(***************************************************************************)
(* Claims about mention parsing                                             *)
(***************************************************************************)
\* C8: the matches of parse_mentions and parse_channel_mentions come in order
\* of occurrence and do not overlap: 0 <= start < end <= len(content), raw is
\* content[start:end], the id is the one written inside raw, and a match ends
\* no later than the next one starts.
C8_MatchesOrderedDisjoint ==
    out.fn \in {"parse_mentions", "parse_channel_mentions"} =>
        \A i \in DOMAIN out.val :
            LET m   == out.val[i]
                id  == IF out.fn = "parse_mentions" THEN m.user_id ELSE m.channel_id
                raw == m.raw
            IN  /\ 0 <= m.start
                /\ m.start < m.end
                /\ m.end <= Len(content)
                /\ raw = SubSeq(content, m.start + 1, m.end)
                /\ id # <<>>
                /\ CASE out.fn = "parse_mentions" /\ backend \in DiscordNames ->
                            raw \in {<<"<", "@">> \o id \o <<">">>, <<"<", "@", "!">> \o id \o <<">">>}
                     [] out.fn = "parse_mentions" /\ backend \in SlackNames ->
                            raw = <<"<", "@">> \o id \o <<">">>
                     [] out.fn = "parse_mentions" /\ backend \in SymphonyNames ->
                            \E p \in 3..Len(raw) :
                                /\ raw[p - 2] = "="
                                /\ raw[p - 1] = "\""
                                /\ p + Len(id) <= Len(raw)
                                /\ SubSeq(raw, p, p + Len(id) - 1) = id
                                /\ raw[p + Len(id)] = "\""
                     [] out.fn = "parse_channel_mentions" /\ backend \in DiscordNames ->
                            raw = <<"<", "#">> \o id \o <<">">>
                     [] out.fn = "parse_channel_mentions" /\ backend \in SlackNames ->
                            /\ Len(raw) >= Len(id) + 3
                            /\ SubSeq(raw, 1, Len(id) + 2) = <<"<", "#">> \o id
                            /\ raw[Len(id) + 3] \in {">", "|"}
                            /\ raw[Len(raw)] = ">"
                     [] OTHER -> FALSE
                /\ (i < Len(out.val) => m.end <= out.val[i + 1].start)

C8_Witness ==
    /\ out.fn = "parse_channel_mentions"
    /\ backend \in SlackNames
    /\ Len(out.val) = 2
    /\ out.val[1].start > 0
    /\ Len(out.val[1].raw) > Len(out.val[1].channel_id) + 3
    /\ out.val[1].end <= out.val[2].start

\* A well-formed user mention of each platform, and a well-formed channel
\* mention, described by its shape.
WellFormedMention(kind, w) ==
    CASE kind = "discord" ->
            /\ Len(w) >= 4
            /\ w[1] = "<" /\ w[2] = "@" /\ w[Len(w)] = ">"
            /\ LET b == IF w[3] = "!" THEN 4 ELSE 3
               IN  b <= Len(w) - 1 /\ \A q \in b..(Len(w) - 1) : w[q] \in DigitChars
      [] kind = "slack" ->
            /\ Len(w) >= 4
            /\ w[1] = "<" /\ w[2] = "@" /\ w[Len(w)] = ">"
            /\ \A q \in 3..(Len(w) - 1) : w[q] \in UpperChars \cup DigitChars
      [] kind = "symphony" ->
            /\ LitAt(w, 1, <<"<", "m", "e", "n", "t", "i", "o", "n">>)
            /\ LitAt(w, Len(w) - 1, <<"/", ">">>)
            /\ \E k \in 10..Len(w) :
                /\ \A q \in 9..(k - 1) : w[q] \in SpaceChars
                /\ \E l \in {<<"u", "i", "d", "=", "\"">>, <<"e", "m", "a", "i", "l", "=", "\"">>} :
                    /\ LitAt(w, k, l)
                    /\ \E n \in (k + Len(l) + 1)..(Len(w) - 2) :
                        /\ \A q \in (k + Len(l))..(n - 1) : w[q] # "\""
                        /\ w[n] = "\""
                        /\ \A q \in (n + 1)..(Len(w) - 2) : w[q] \in SpaceChars
      [] kind = "discord_channel" ->
            /\ Len(w) >= 4
            /\ w[1] = "<" /\ w[2] = "#" /\ w[Len(w)] = ">"
            /\ \A q \in 3..(Len(w) - 1) : w[q] \in DigitChars
      [] kind = "slack_channel" ->
            /\ Len(w) >= 4
            /\ w[1] = "<" /\ w[2] = "#" /\ w[Len(w)] = ">"
            /\ \E k \in 4..Len(w) :
                /\ \A q \in 3..(k - 1) : w[q] \in UpperChars \cup DigitChars
                /\ (k = Len(w) \/ w[k] = "|")
                /\ \A q \in k..(Len(w) - 1) : w[q] # ">"

ContainsMention(kind, s) ==
    \E i \in {x \in DOMAIN s : s[x] = "<"} :
        \E j \in {x \in DOMAIN s : x > i /\ s[x] = ">"} :
            WellFormedMention(kind, SubSeq(s, i, j))

\* C9: parsing never fails: a backend name without a pattern (any name but
\* discord, slack, symphony for parse_mentions; any name but discord, slack
\* for parse_channel_mentions) gives the empty sequence for every content, and
\* for a known backend a content without a well-formed mention gives the
\* empty sequence.
C9_NoPatternOrNoMentionIsEmpty ==
    /\ out.fn = "parse_mentions" =>
        /\ backend \notin (DiscordNames \cup SlackNames \cup SymphonyNames) => out.val = <<>>
        /\ (backend \in DiscordNames /\ ~ContainsMention("discord", content)) => out.val = <<>>
        /\ (backend \in SlackNames /\ ~ContainsMention("slack", content)) => out.val = <<>>
        /\ (backend \in SymphonyNames /\ ~ContainsMention("symphony", content)) => out.val = <<>>
    /\ out.fn = "parse_channel_mentions" =>
        /\ backend \notin (DiscordNames \cup SlackNames) => out.val = <<>>
        /\ (backend \in DiscordNames /\ ~ContainsMention("discord_channel", content)) => out.val = <<>>
        /\ (backend \in SlackNames /\ ~ContainsMention("slack_channel", content)) => out.val = <<>>

C9_Witness ==
    /\ out.fn = "parse_mentions"
    /\ backend \notin (DiscordNames \cup SlackNames \cup SymphonyNames)
    /\ ContainsMention("slack", content)
    /\ ContainsMention("symphony", content)
    /\ out.val = <<>>

\* C10: extract_mention_ids is the sequence of the user_id fields of
\* parse_mentions, same length and order, repeated ids kept; extract_channel_ids
\* is that of the channel_id fields of parse_channel_mentions.
C10_ExtractIsProjection ==
    /\ out.fn = "extract_mention_ids" =>
        LET ms == parse_mentions(content, backend)
        IN  /\ Len(out.val) = Len(ms)
            /\ \A i \in DOMAIN ms : out.val[i] = ms[i].user_id
    /\ out.fn = "extract_channel_ids" =>
        LET ms == parse_channel_mentions(content, backend)
        IN  /\ Len(out.val) = Len(ms)
            /\ \A i \in DOMAIN ms : out.val[i] = ms[i].channel_id

C10_Witness ==
    /\ out.fn = "extract_mention_ids"
    /\ Len(out.val) = 3
    /\ out.val[1] = out.val[3]
    /\ out.val[1] # out.val[2]

(***************************************************************************)
(* Channel construction (chatom/base/channel.py)                            *)
(*                                                                          *)
(* Objects live in heap, a sequence indexed by address, so that "the same   *)
(* object" is equality of addresses; address 0 is None.  A call either      *)
(* returns the address of its result or raises, and a raising constructor   *)
(* allocates nothing.                                                       *)
(***************************************************************************)
MaxUsers == 3

ChannelTypes ==
    {"public", "private", "direct", "group", "thread", "forum", "announcement", "unknown"}

None == 0

Raise(exc) == [raised |-> exc, val |-> None]

Return(v) == [raised |-> "", val |-> v]

\* The users a test fixture builds: User(id="7", name="Al") and User(id="U").
HeapUsers ==
    << NewUser("User", <<"7">>, <<"A", "l">>, <<>>, <<>>, <<>>, <<>>),
       NewUser("User", <<"U">>, <<>>, <<>>, <<>>, <<>>, <<>>) >>

UserLists == SeqsUpTo(DOMAIN HeapUsers, MaxUsers)

infer_channel_type_direct(users) == "direct"

\* The type inferred for an UNKNOWN channel with users.
infer_channel_type(users) == IF Len(users) = 1 THEN "direct" ELSE "group"

Channel_validate_dm_users_direct_only(self) ==
    IF self.users # <<>> /\ self.channel_type = "direct" /\ Len(self.users) # 1
    THEN Raise("ValueError")
    ELSE Return(self)

\* Channel._validate_dm_users: the "after" validator; an empty list is falsy.
Channel_validate_dm_users(self) ==
    IF self.users # <<>>
    THEN IF self.channel_type = "direct"
         THEN IF Len(self.users) # 1 THEN Raise("ValueError") ELSE Return(self)
         ELSE IF self.channel_type = "group"
         THEN IF Len(self.users) < 2 THEN Raise("ValueError") ELSE Return(self)
         ELSE IF self.channel_type = "unknown"
         THEN Return([self EXCEPT !.channel_type = infer_channel_type(self.users)])
         ELSE Return(self)
    ELSE Return(self)

\* Channel(id=..., name=..., channel_type=..., users=...): the fields as
\* supplied, a new list of the same user objects, then the validator.
Channel(id, name, channel_type, users) ==
    Channel_validate_dm_users(
        [kind |-> "Channel", id |-> id, name |-> name, channel_type |-> channel_type,
         users |-> users, is_incomplete |-> FALSE])

\* Identifiable.mark_incomplete
mark_incomplete(self) == [self EXCEPT !.is_incomplete = TRUE]

\* Channel.dm_to
Channel_dm_to(u) ==
    LET c == Channel(<<>>, <<>>, "direct", <<u>>)
    IN  IF c.raised # "" THEN c ELSE Return(mark_incomplete(c.val))

\* Channel.group_dm_to
Channel_group_dm_to(users) ==
    LET c == Channel(<<>>, <<>>, "group", users)
    IN  IF c.raised # "" THEN c ELSE Return(mark_incomplete(c.val))

\* The heap and the call's outcome after a constructor that returned r.
Allocated(h, r) == IF r.raised # "" THEN h ELSE Append(h, r.val)

Outcome(fn, h, r) ==
    [fn |-> fn, raised |-> r.raised, val |-> IF r.raised # "" THEN None ELSE Len(h) + 1]

ConstructInit ==
    /\ heap = HeapUsers
    /\ args \in [channel_type : ChannelTypes, users : UserLists]
    /\ user = NoUser
    /\ channel = NoChannel
    /\ backend = <<>>
    /\ content = <<>>
    /\ out = NoOut

ConstructChannel ==
    /\ out = NoOut
    /\ LET r == Channel(<<>>, <<>>, args.channel_type, args.users)
       IN  /\ heap' = Allocated(heap, r)
           /\ out' = Outcome("Channel", heap, r)
    /\ UNCHANGED <<user, channel, backend, content, args>>

DmTo ==
    /\ out = NoOut
    /\ \E u \in DOMAIN HeapUsers :
          LET r == Channel_dm_to(u)
          IN  /\ heap' = Allocated(heap, r)
              /\ out' = Outcome("Channel.dm_to", heap, r)
    /\ UNCHANGED <<user, channel, backend, content, args>>

GroupDmTo ==
    /\ out = NoOut
    /\ LET r == Channel_group_dm_to(args.users)
       IN  /\ heap' = Allocated(heap, r)
           /\ out' = Outcome("Channel.group_dm_to", heap, r)
    /\ UNCHANGED <<user, channel, backend, content, args>>

ConstructNext == ConstructChannel \/ DmTo \/ GroupDmTo

ConstructSpec == ConstructInit /\ [][ConstructNext]_vars

\* The channels in memory.
HeapChannels == {a \in DOMAIN heap : heap[a].kind = "Channel"}

(***************************************************************************)
(* C11: Channel(...) fails exactly when it is DIRECT with more than one     *)
(* user or GROUP with exactly one user; so every channel a constructor      *)
(* returned has, if DIRECT, zero or one user and, if GROUP, zero or at      *)
(* least two; DIRECT or GROUP with an empty users list is accepted.         *)
(***************************************************************************)
C11_ChannelUsersValidated ==
    /\ out.fn = "Channel" =>
          /\ (out.raised # "") <=>
                \/ args.channel_type = "direct" /\ Len(args.users) > 1
                \/ args.channel_type = "group" /\ Len(args.users) = 1
          /\ (args.channel_type \in {"direct", "group"} /\ args.users = <<>>) =>
                /\ out.raised = ""
                /\ heap[out.val].channel_type = args.channel_type
                /\ heap[out.val].users = <<>>
    /\ \A a \in HeapChannels :
          /\ heap[a].channel_type = "direct" => Len(heap[a].users) <= 1
          /\ heap[a].channel_type = "group" => Len(heap[a].users) = 0 \/ Len(heap[a].users) >= 2

C11_Witness ==
    /\ out.fn = "Channel"
    /\ args.channel_type = "group"
    /\ Len(args.users) = 1
    /\ out.raised = "ValueError"
    /\ HeapChannels = {}

(***************************************************************************)
(* C12: Channel(...) with channel_type UNKNOWN returns a channel whose type *)
(* is DIRECT for exactly one user, GROUP for two or more, and UNKNOWN for   *)
(* an empty users list.                                                     *)
(***************************************************************************)
C12_UnknownTypeInferred ==
    (out.fn = "Channel" /\ args.channel_type = "unknown") =>
        /\ out.raised = ""
        /\ heap[out.val].users = args.users
        /\ heap[out.val].channel_type =
              IF Len(args.users) = 0 THEN "unknown"
              ELSE IF Len(args.users) = 1 THEN "direct"
              ELSE "group"

C12_Witness ==
    /\ out.fn = "Channel"
    /\ args.channel_type = "unknown"
    /\ Len(args.users) >= 2
    /\ heap[out.val].channel_type = "group"

(***************************************************************************)
(* Messages (chatom/base/message.py)                                        *)
(*                                                                          *)
(* A call that allocates returns the heap it leaves behind together with    *)
(* the address of its result.  Keyword arguments are records; a dict is an  *)
(* object holding a function from keys to values.                           *)
(***************************************************************************)
Alloc(h, obj) == [raised |-> "", val |-> Len(h) + 1, heap |-> Append(h, obj)]

Failed(h, exc) == [raised |-> exc, val |-> None, heap |-> h]

NoKwargs == <<>>

\* dict(items): a new dict object
NewDict(items) == [kind |-> "dict", items |-> items]

\* The fields of Message with their defaults; metadata is filled by the constructor.
MessageDefaults ==
    [kind |-> "Message", id |-> <<>>, content |-> <<>>, author |-> None, channel |-> None,
     thread |-> None, message_type |-> "default", is_pinned |-> FALSE, attachments |-> <<>>,
     reply_to |-> None, forwarded_from |-> None, formatted_content |-> <<>>,
     backend |-> <<>>, metadata |-> None]

\* cls(**kw): the supplied fields over the defaults; metadata's default_factory
\* builds a new dict.  The objects passed for the other fields are kept as they are.
NewMessage(h, cls, kw) ==
    IF "metadata" \in DOMAIN kw
    THEN Alloc(h, [kind |-> cls] @@ kw @@ MessageDefaults)
    ELSE LET d == Alloc(h, NewDict(<<>>))
         IN  Alloc(d.heap, [kind |-> cls, metadata |-> d.val] @@ kw @@ MessageDefaults)

CallWithKwargsMerged(h, cls, explicit, kwargs) == NewMessage(h, cls, kwargs @@ explicit)

\* cls(name=value, ..., **kwargs): Python refuses a keyword given twice.
CallWithKwargs(h, cls, explicit, kwargs) ==
    IF DOMAIN explicit \cap DOMAIN kwargs # {}
    THEN Failed(h, "TypeError")
    ELSE NewMessage(h, cls, explicit @@ kwargs)

\* Message.author_id
author_id(h, self) == IF self.author # None THEN h[self.author].id ELSE <<>>

\* Message.channel_id
channel_id(h, self) == IF self.channel # None THEN h[self.channel].id ELSE <<>>

(***************************************************************************)
(* Format conversion.  The span model and the renderer are the ones the     *)
(* format package provides: a formatted message is a sequence of typed      *)
(* spans, a list of attachment descriptors and a metadata dict.             *)
(***************************************************************************)
TextSpan(s) == [type |-> "text", text |-> s]

BoldSpan(s) == [type |-> "bold", text |-> s]

\* FormattedMessage.add_text
add_text(spans, s) == Append(spans, TextSpan(s))

FormattedAttachment(filename, url, content_type, size) ==
    [kind |-> "FormattedAttachment", filename |-> filename, url |-> url,
     content_type |-> content_type, size |-> size]

Attachment(filename, url, content_type, size) ==
    [kind |-> "Attachment", filename |-> filename, url |-> url,
     content_type |-> content_type, size |-> size]

\* get_format_for_backend: the fixed backend name -> Format table.
get_format_for_backend(b) ==
    IF b = <<"d", "i", "s", "c", "o", "r", "d">> THEN "discord_markdown"
    ELSE IF b = <<"s", "l", "a", "c", "k">> THEN "slack_markdown"
    ELSE IF b = <<"s", "y", "m", "p", "h", "o", "n", "y">> THEN "symphony_messageml"
    ELSE "markdown"

RECURSIVE escape(_)
\* Markup characters of the XML dialect are escaped in text.
escape(s) ==
    IF s = <<>> THEN <<>>
    ELSE (CASE Head(s) = "<" -> <<"&", "l", "t", ";">>
            [] Head(s) = ">" -> <<"&", "g", "t", ";">>
            [] Head(s) = "&" -> <<"&", "a", "m", "p", ";">>
            [] OTHER -> <<Head(s)>>) \o escape(Tail(s))

\* One span in a dialect: the delimiters differ per dialect.
render_span(span, format) ==
    IF span.type = "bold"
    THEN CASE format = "slack_markdown" -> <<"*">> \o span.text \o <<"*">>
           [] format \in {"discord_markdown", "markdown"} -> <<"*", "*">> \o span.text \o <<"*", "*">>
           [] format = "symphony_messageml" -> <<"<", "b", ">">> \o escape(span.text) \o <<"<", "/", "b", ">">>
           [] OTHER -> span.text
    ELSE IF format = "symphony_messageml" THEN escape(span.text) ELSE span.text

RECURSIVE render_spans(_, _)
render_spans(spans, format) ==
    IF spans = <<>> THEN <<>>
    ELSE render_span(Head(spans), format) \o render_spans(Tail(spans), format)

\* FormattedMessage.render
render(fm, format) == render_spans(fm.content, format)

text_content_plain_first(self) == Or(self.content, self.formatted_content)

\* "self.formatted_content or self.content"
text_content(self) == Or(self.formatted_content, self.content)

\* The metadata to_formatted records: two keys always, two when available.
formatted_metadata(h, self) ==
    (IF Truthy(channel_id(h, self)) THEN "channel_id" :> channel_id(h, self) ELSE <<>>)
    @@ (IF Truthy(author_id(h, self)) THEN "author_id" :> author_id(h, self) ELSE <<>>)
    @@ ("message_id" :> self.id)
    @@ ("source_backend" :> self.backend)

NewFormattedMessage(h, spans, attachments, items) ==
    LET d == Alloc(h, NewDict(items))
    IN  Alloc(d.heap, [kind |-> "FormattedMessage", content |-> spans,
                       attachments |-> attachments, metadata |-> d.val])

Message_to_formatted_no_text(h, m) ==
    NewFormattedMessage(h, <<>>, <<>>, formatted_metadata(h, h[m]))

\* Message.to_formatted
Message_to_formatted(h, m) ==
    LET self == h[m]
        text == text_content(self)
        spans == IF Truthy(text) THEN add_text(<<>>, text) ELSE <<>>
        attachments ==
            [i \in DOMAIN self.attachments |->
                FormattedAttachment(self.attachments[i].filename, self.attachments[i].url,
                                    self.attachments[i].content_type, self.attachments[i].size)]
    IN  NewFormattedMessage(h, spans, attachments, formatted_metadata(h, self))

Message_from_formatted_shared_metadata(h, cls, formatted, b, kwargs) ==
    CallWithKwargs(h, cls,
        [content |-> render(h[formatted], IF Truthy(b) THEN get_format_for_backend(b) ELSE "plaintext"),
         backend |-> b, attachments |-> <<>>, metadata |-> h[formatted].metadata],
        kwargs)

\* Message.from_formatted (a classmethod: cls is the class it is called on)
Message_from_formatted(h, cls, formatted, b, kwargs) ==
    LET fm == h[formatted]
        target_format == IF Truthy(b) THEN get_format_for_backend(b) ELSE "plaintext"
        rendered == render(fm, target_format)
        attachments ==
            [i \in DOMAIN fm.attachments |->
                Attachment(fm.attachments[i].filename, fm.attachments[i].url,
                           fm.attachments[i].content_type, fm.attachments[i].size)]
        d == Alloc(h, NewDict(h[fm.metadata].items))
    IN  CallWithKwargs(d.heap, cls,
            [content |-> rendered, backend |-> b, attachments |-> attachments,
             metadata |-> d.val],
            kwargs)

(***************************************************************************)
(* The conversions are applied to a message with an author and a channel,   *)
(* or with neither; a formatted message comes from to_formatted or from the *)
(* message builder, is then converted back, and the metadata of either side *)
(* may be written afterwards.                                               *)
(***************************************************************************)
FormatBackends ==
    {<<>>, <<"d", "i", "s", "c", "o", "r", "d">>, <<"s", "l", "a", "c", "k">>,
     <<"s", "y", "m", "p", "h", "o", "n", "y">>, <<"t", "e", "s", "t">>}

AttachmentFields ==
    { <<<<"a", ".", "p", "d", "f">>, <<"u", "1">>, <<"p", "d", "f">>, 1024>>,
      <<<<"b", ".", "p", "n", "g">>, <<"u", "2">>, <<"p", "n", "g">>, 7>> }

\* Lists of attachments: none, and two in either order.
FieldLists ==
    {<<>>} \cup {l \in AttachmentFields \X AttachmentFields : l[1] # l[2]}

AttachmentLists ==
    {[i \in DOMAIN l |-> Attachment(l[i][1], l[i][2], l[i][3], l[i][4])] : l \in FieldLists}

FormattedAttachmentLists ==
    {[i \in DOMAIN l |-> FormattedAttachment(l[i][1], l[i][2], l[i][3], l[i][4])] : l \in FieldLists}

\* The message under conversion and the objects it refers to.
TheAuthor == 1

TheChannel == 2

TheMessage == 4

\* Extra keyword arguments: none, a field no constructor passes itself, and
\* fields some or all of the constructors pass themselves.
KwargsSet ==
    {NoKwargs, [is_pinned |-> TRUE], [backend |-> <<"s">>], [forwarded_from |-> TheMessage]}

FormatHeap(links, id, c, fc, b, atts) ==
    << HeapUsers[1],
       Channel(<<"c", "1">>, <<"g">>, "public", <<>>).val,
       NewDict(<<>>),
       [id |-> id, content |-> c, formatted_content |-> fc, backend |-> b, attachments |-> atts,
        author |-> links[1], channel |-> links[2], metadata |-> 3] @@ MessageDefaults >>

FormatInit ==
    /\ \E links \in {<<None, None>>, <<TheAuthor, TheChannel>>},
          c \in {<<>>, <<"h", "i">>, <<"a", "<", "b">>, <<"*", "x", "*">>},
          fc \in {<<>>, <<"<", "b", ">", "R">>},
          b \in FormatBackends,
          atts \in AttachmentLists :
          heap = FormatHeap(links, <<"m", "1">>, c, fc, b, atts)
    /\ args = NoArgs
    /\ user = NoUser
    /\ channel = NoChannel
    /\ backend = <<>>
    /\ content = <<>>
    /\ out = NoOut

Returned(fn, r) == [fn |-> fn, raised |-> r.raised, val |-> r.val]

ToFormatted ==
    /\ out = NoOut
    /\ LET r == Message_to_formatted(heap, TheMessage)
       IN  /\ heap' = r.heap
           /\ out' = Returned("to_formatted", r)
    /\ args' = [self |-> TheMessage]
    /\ UNCHANGED <<user, channel, backend, content>>

\* MessageBuilder()...build()
Build ==
    /\ out = NoOut
    /\ \E spans \in {<<>>, <<BoldSpan(<<"H">>), TextSpan(<<" ", "w">>)>>,
                      <<TextSpan(<<"a", "<", "b">>)>>},
          atts \in FormattedAttachmentLists,
          items \in {<<>>, "k" :> <<"v">>} :
          LET r == NewFormattedMessage(heap, spans, atts, items)
          IN  /\ heap' = r.heap
              /\ out' = Returned("build", r)
    /\ args' = NoArgs
    /\ UNCHANGED <<user, channel, backend, content>>

\* Message.from_formatted(formatted, backend=b, **kw) on the formatted message just made.
FromFormatted ==
    /\ out.fn \in {"to_formatted", "build"}
    /\ \E b \in FormatBackends, kw \in KwargsSet :
          LET r == Message_from_formatted(heap, "Message", out.val, b, kw)
          IN  /\ heap' = r.heap
              /\ out' = Returned("from_formatted", r)
              /\ args' = [formatted |-> out.val, backend |-> b, kwargs |-> kw]
    /\ UNCHANGED <<user, channel, backend, content>>

\* d[key] = value on the metadata of the formatted message or of the new message.
SetMetadataItem ==
    /\ out.fn = "from_formatted"
    /\ \E d \in {heap[args.formatted].metadata}
                 \cup (IF out.raised = "" THEN {heap[out.val].metadata} ELSE {}) :
          /\ "z" \notin DOMAIN heap[d].items
          /\ heap' = [heap EXCEPT ![d].items = ("z" :> <<"9">>) @@ @]
    /\ UNCHANGED <<user, channel, backend, content, out, args>>

FormatNext == ToFormatted \/ Build \/ FromFormatted \/ SetMetadataItem

FormatSpec == FormatInit /\ [][FormatNext]_vars

(***************************************************************************)
(* C13: to_formatted uses formatted_content as the text of the formatted    *)
(* message whenever it is non-empty (even if content is set too), content   *)
(* otherwise, and produces no text span when both are empty.                *)
(***************************************************************************)
C13_FormattedContentPreferred ==
    out.fn = "to_formatted" =>
        LET m == heap[args.self]
            fm == heap[out.val]
        IN  /\ fm.kind = "FormattedMessage"
            /\ fm.content =
                  IF m.formatted_content # <<>> THEN <<TextSpan(m.formatted_content)>>
                  ELSE IF m.content # <<>> THEN <<TextSpan(m.content)>>
                  ELSE <<>>

C13_Witness ==
    /\ out.fn = "to_formatted"
    /\ heap[args.self].content = <<"h", "i">>
    /\ heap[args.self].formatted_content = <<"<", "b", ">", "R">>
    /\ heap[out.val].content = <<TextSpan(<<"<", "b", ">", "R">>)>>

(***************************************************************************)
(* C14: a returning from_formatted(formatted, backend, **overrides) yields  *)
(* a new Message whose content is the formatted message rendered in the     *)
(* dialect of the backend name (plain text for the empty name), whose       *)
(* backend is that name, whose attachments match the formatted attachments  *)
(* one-to-one and in order, and whose metadata is a copy: a key added to    *)
(* either metadata afterwards leaves the other unchanged.                   *)
(***************************************************************************)
C14_Returns ==
    (out.fn # "from_formatted" /\ out'.fn = "from_formatted" /\ out'.raised = "") =>
        LET fm == heap'[args'.formatted]
            msg == heap'[out'.val]
            dialect == IF args'.backend = <<>> THEN "plaintext"
                       ELSE get_format_for_backend(args'.backend)
        IN  /\ out'.val \notin DOMAIN heap
            /\ msg.kind = "Message"
            /\ msg.content = render(fm, dialect)
            /\ msg.backend = args'.backend
            /\ Len(msg.attachments) = Len(fm.attachments)
            /\ \A i \in DOMAIN fm.attachments :
                  /\ msg.attachments[i].filename = fm.attachments[i].filename
                  /\ msg.attachments[i].url = fm.attachments[i].url
                  /\ msg.attachments[i].content_type = fm.attachments[i].content_type
                  /\ msg.attachments[i].size = fm.attachments[i].size
            /\ heap'[msg.metadata].items = heap'[fm.metadata].items

C14_MetadataIndependent ==
    (out.fn = "from_formatted" /\ out.raised = "") =>
        LET fd == heap[args.formatted].metadata
            md == heap[out.val].metadata
        IN  /\ heap'[fd] # heap[fd] => heap'[md] = heap[md]
            /\ heap'[md] # heap[md] => heap'[fd] = heap[fd]

C14_FromFormatted == [][C14_Returns /\ C14_MetadataIndependent]_vars

C14_Witness ==
    /\ out.fn = "from_formatted"
    /\ out.raised = ""
    /\ args.backend = <<"s", "l", "a", "c", "k">>
    /\ heap[out.val].content = <<"*", "H", "*", " ", "w">>
    /\ Len(heap[out.val].attachments) = 2
    /\ DOMAIN heap[heap[args.formatted].metadata].items = {"k", "z"}
    /\ DOMAIN heap[heap[out.val].metadata].items = {"k"}

(***************************************************************************)
(* C15: round trip.  For a message m with empty formatted_content and plain *)
(* text content, from_formatted(m.to_formatted(), backend=m.backend) has    *)
(* m's content.                                                             *)
(***************************************************************************)
MarkupChars == {"<", ">", "&", "*", "_"}

PlainText(s) == \A i \in DOMAIN s : s[i] \notin MarkupChars

C15_Step ==
    (/\ out.fn = "to_formatted"
     /\ out'.fn = "from_formatted"
     /\ out'.raised = ""
     /\ args'.formatted = out.val
     /\ args'.backend = heap[args.self].backend
     /\ heap[args.self].formatted_content = <<>>
     /\ PlainText(heap[args.self].content)) =>
        heap'[out'.val].content = heap[args.self].content

Get(items, key, default) == IF key \in DOMAIN items THEN items[key] ELSE default

\* Message.channel_name
channel_name(h, self) ==
    IF self.channel # None THEN h[self.channel].name
    ELSE Get(h[self.metadata].items, "channel_name", <<>>)

\* Message.author_name
author_name(h, self) ==
    IF self.author # None THEN h[self.author].name
    ELSE Get(h[self.metadata].items, "author_name", <<>>)

\* Thread(id=..., parent_message=...)
Thread(id, parent_message) ==
    [kind |-> "Thread", id |-> id, name |-> <<>>, parent_channel |-> None,
     parent_message |-> parent_message]

Message_as_reply_no_channel(h, m, c, kwargs) ==
    CallWithKwargs(h, h[m].kind,
        [content |-> c, reply_to |-> m, message_type |-> "reply", backend |-> h[m].backend],
        kwargs)

\* Message.as_reply
Message_as_reply(h, m, c, kwargs) ==
    CallWithKwargs(h, h[m].kind,
        [content |-> c, channel |-> h[m].channel, reply_to |-> m, message_type |-> "reply",
         backend |-> h[m].backend],
        kwargs)

thread_always_new(h, m) == Alloc(h, Thread(h[m].id, m))

\* "self.thread if self.thread else Thread(id=self.id, parent_message=self)"
thread_for_reply(h, m) ==
    IF h[m].thread # None
    THEN [raised |-> "", val |-> h[m].thread, heap |-> h]
    ELSE Alloc(h, Thread(h[m].id, m))

\* Message.as_thread_reply
Message_as_thread_reply(h, m, c, kwargs) ==
    LET thread == thread_for_reply(h, m)
    IN  CallWithKwargs(thread.heap, h[m].kind,
            [content |-> c, channel |-> h[m].channel, thread |-> thread.val, reply_to |-> m,
             message_type |-> "reply", backend |-> h[m].backend],
            kwargs)

Message_as_dm_to_author_unchecked(h, m, c, kwargs) ==
    LET dm_channel == Alloc(h, Channel(<<>>, <<>>, "direct", <<h[m].author>>).val)
    IN  CallWithKwargs(dm_channel.heap, h[m].kind,
            [content |-> c, channel |-> dm_channel.val, backend |-> h[m].backend], kwargs)

\* Message.as_dm_to_author
Message_as_dm_to_author(h, m, c, kwargs) ==
    IF h[m].author = None
    THEN Failed(h, "ValueError")
    ELSE LET made == Channel_dm_to(h[m].author)
         IN  IF made.raised # "" THEN Failed(h, made.raised)
             ELSE LET dm_channel == Alloc(h, made.val)
                  IN  CallWithKwargs(dm_channel.heap, h[m].kind,
                          [content |-> c, channel |-> dm_channel.val, backend |-> h[m].backend],
                          kwargs)

UnknownAuthor == <<"U", "n", "k", "n", "o", "w", "n">>

UnknownChannel == <<"u", "n", "k", "n", "o", "w", "n">>

forward_channel_name_or_unknown(h, self) == Or(channel_name(h, self), UnknownChannel)

\* "self.channel_name or (self.channel.id if self.channel else "unknown")"
forward_channel_name(h, self) ==
    Or(channel_name(h, self), IF self.channel # None THEN h[self.channel].id ELSE UnknownChannel)

\* "self.author_name or "Unknown""
forward_author_name(h, self) == Or(author_name(h, self), UnknownAuthor)

\* f"[Forwarded from {author_name} in #{channel_name}]\n{content}"
Attribution(author, chan, c) ==
    <<"[", "F", "o", "r", "w", "a", "r", "d", "e", "d", " ", "f", "r", "o", "m", " ">> \o author \o <<" ", "i", "n", " ", "#">> \o chan \o <<"]", "\n">> \o c

Message_as_forward_base_class(h, m, target_channel, kwargs) ==
    CallWithKwargs(h, "Message",
        [content |-> Attribution(forward_author_name(h, h[m]), forward_channel_name(h, h[m]),
                                 h[m].content),
         channel |-> target_channel, forwarded_from |-> m, message_type |-> "forward",
         backend |-> h[m].backend],
        kwargs)

\* Message.as_forward
Message_as_forward(h, m, target_channel, kwargs) ==
    LET self == h[m]
        forwarded_content ==
            Attribution(forward_author_name(h, self), forward_channel_name(h, self), self.content)
    IN  CallWithKwargs(h, self.kind,
            [content |-> forwarded_content, channel |-> target_channel, forwarded_from |-> m,
             message_type |-> "forward", backend |-> self.backend],
            kwargs)

RECURSIVE split(_, _)
\* str.split(sep) for a one-character separator: always at least one piece.
split(s, sep) ==
    IF \A i \in DOMAIN s : s[i] # sep THEN <<s>>
    ELSE LET k == CHOOSE i \in DOMAIN s : s[i] = sep /\ \A j \in 1..(i - 1) : s[j] # sep
         IN  <<SubSeq(s, 1, k - 1)>> \o split(SubSeq(s, k + 1, Len(s)), sep)

RECURSIVE join(_, _)
\* sep.join(pieces)
join(sep, pieces) ==
    IF pieces = <<>> THEN <<>>
    ELSE IF Len(pieces) = 1 THEN pieces[1]
    ELSE pieces[1] \o sep \o join(sep, Tail(pieces))

quoted_first_line_only(c) == <<">", " ">> \o c

\* "\n".join([f"> {line}" for line in content.split("\n")])
quoted(c) ==
    LET lines == split(c, "\n")
        quoted_lines == [i \in DOMAIN lines |-> <<">", " ">> \o lines[i]]
    IN  join(<<"\n">>, quoted_lines)

\* Message.as_quote_reply
Message_as_quote_reply(h, m, c, kwargs) ==
    LET full_content == quoted(h[m].content) \o <<"\n", "\n">> \o c
        thread == thread_for_reply(h, m)
    IN  CallWithKwargs(thread.heap, h[m].kind,
            [content |-> full_content, channel |-> h[m].channel, thread |-> thread.val,
             reply_to |-> m, message_type |-> "reply", backend |-> h[m].backend],
            kwargs)

(***************************************************************************)
(* The constructors are called on a message that may or may not have an     *)
(* author, a channel and a thread; one call is made per behaviour.          *)
(***************************************************************************)
TheThread == 5

TheTarget == 6

NewContents == {<<>>, <<"x">>}

ReplyHeap(cls, u, cid, cname, items, links, id, c, b) ==
    << u,
       Channel(cid, cname, "public", <<>>).val,
       NewDict(items),
       [kind |-> cls, id |-> id, content |-> c, backend |-> b, author |-> links[1],
        channel |-> links[2], thread |-> links[3], metadata |-> 3] @@ MessageDefaults,
       Thread(<<"t", "1">>, None),
       Channel(<<"c", "2">>, <<"l", "o", "g", "s">>, "public", <<>>).val >>

ReplyInit ==
    /\ \E cls \in {"Message", "CustomMessage"},
          u \in {HeapUsers[1], HeapUsers[2]},
          cid \in {<<>>, <<"c", "1">>},
          cname \in {<<>>, <<"g">>},
          items \in {<<>>, ("author_name" :> <<"M">>) @@ ("channel_name" :> <<"m", "c">>)},
          links \in {None, TheAuthor} \X {None, TheChannel} \X {None, TheThread},
          id \in {<<>>, <<"m", "1">>},
          c \in {<<>>, <<"a">>, <<"a", "\n", "b">>, <<"\n", "a", "\n">>},
          b \in {<<>>, <<"t", "e", "s", "t">>} :
          heap = ReplyHeap(cls, u, cid, cname, items, links, id, c, b)
    /\ args = NoArgs
    /\ user = NoUser
    /\ channel = NoChannel
    /\ backend = <<>>
    /\ content = <<>>
    /\ out = NoOut

AsReply ==
    /\ out = NoOut
    /\ \E c \in NewContents, kw \in KwargsSet :
          LET r == Message_as_reply(heap, TheMessage, c, kw)
          IN  /\ heap' = r.heap
              /\ out' = Returned("as_reply", r)
              /\ args' = [self |-> TheMessage, content |-> c, kwargs |-> kw]
    /\ UNCHANGED <<user, channel, backend, content>>

AsThreadReply ==
    /\ out = NoOut
    /\ \E c \in NewContents, kw \in KwargsSet :
          LET r == Message_as_thread_reply(heap, TheMessage, c, kw)
          IN  /\ heap' = r.heap
              /\ out' = Returned("as_thread_reply", r)
              /\ args' = [self |-> TheMessage, content |-> c, kwargs |-> kw]
    /\ UNCHANGED <<user, channel, backend, content>>

AsDmToAuthor ==
    /\ out = NoOut
    /\ \E c \in NewContents, kw \in KwargsSet :
          LET r == Message_as_dm_to_author(heap, TheMessage, c, kw)
          IN  /\ heap' = r.heap
              /\ out' = Returned("as_dm_to_author", r)
              /\ args' = [self |-> TheMessage, content |-> c, kwargs |-> kw]
    /\ UNCHANGED <<user, channel, backend, content>>

AsForward ==
    /\ out = NoOut
    /\ \E kw \in KwargsSet :
          LET r == Message_as_forward(heap, TheMessage, TheTarget, kw)
          IN  /\ heap' = r.heap
              /\ out' = Returned("as_forward", r)
              /\ args' = [self |-> TheMessage, target_channel |-> TheTarget, kwargs |-> kw]
    /\ UNCHANGED <<user, channel, backend, content>>

AsQuoteReply ==
    /\ out = NoOut
    /\ \E c \in NewContents, kw \in KwargsSet :
          LET r == Message_as_quote_reply(heap, TheMessage, c, kw)
          IN  /\ heap' = r.heap
              /\ out' = Returned("as_quote_reply", r)
              /\ args' = [self |-> TheMessage, content |-> c, kwargs |-> kw]
    /\ UNCHANGED <<user, channel, backend, content>>

ReplyNext == AsReply \/ AsThreadReply \/ AsDmToAuthor \/ AsForward \/ AsQuoteReply

ReplySpec == ReplyInit /\ [][ReplyNext]_vars

(***************************************************************************)
(* C16: as_reply(content) returns a new message with the given content, the *)
(* original's channel (the same object), reply_to the original message      *)
(* itself, message_type REPLY and the original's backend.                   *)
(***************************************************************************)
C16_AsReply ==
    (out.fn = "as_reply" /\ args.kwargs = NoKwargs) =>
        /\ out.raised = ""
        /\ out.val # args.self
        /\ heap[out.val].content = args.content
        /\ heap[out.val].channel = heap[args.self].channel
        /\ heap[out.val].reply_to = args.self
        /\ heap[out.val].message_type = "reply"
        /\ heap[out.val].backend = heap[args.self].backend

C16_Witness ==
    /\ out.fn = "as_reply"
    /\ args.kwargs = NoKwargs
    /\ heap[out.val].content = <<"x">>
    /\ heap[out.val].channel = TheChannel
    /\ heap[out.val].reply_to = TheMessage
    /\ heap[out.val].backend = <<"t", "e", "s", "t">>

(***************************************************************************)
(* C17: as_thread_reply(content) puts the new message in the original's     *)
(* thread (the same Thread object) when it has one, and otherwise in a      *)
(* newly built thread whose id is the original message's id and whose       *)
(* parent_message is the original; reply_to is the original and             *)
(* message_type is REPLY in both cases.                                     *)
(***************************************************************************)
C17_AsThreadReply ==
    (out.fn = "as_thread_reply" /\ args.kwargs = NoKwargs) =>
        LET original == heap[args.self]
            new == heap[out.val]
        IN  /\ out.raised = ""
            /\ new.content = args.content
            /\ new.reply_to = args.self
            /\ new.message_type = "reply"
            /\ original.thread # None => new.thread = original.thread
            /\ original.thread = None =>
                  /\ new.thread \notin {None, TheThread}
                  /\ heap[new.thread].kind = "Thread"
                  /\ heap[new.thread].id = original.id
                  /\ heap[new.thread].parent_message = args.self

C17_Witness ==
    /\ out.fn = "as_thread_reply"
    /\ args.kwargs = NoKwargs
    /\ heap[args.self].thread = None
    /\ heap[heap[out.val].thread].id = <<"m", "1">>
    /\ heap[heap[out.val].thread].parent_message = TheMessage

(***************************************************************************)
(* C18: as_forward(target) returns a message whose content is exactly       *)
(* "[Forwarded from {author_name} in #{channel_name}]", a newline and the   *)
(* original content, where author_name is the original author's name, or    *)
(* "Unknown" when that name is absent, and channel_name is the original     *)
(* channel's name, or "unknown" when that name is absent; forwarded_from is *)
(* the original, message_type is FORWARD and channel is the target.  The    *)
(* names are read as the message's author_name and channel_name give them.  *)
(***************************************************************************)
C18_ForwardAttribution ==
    (out.fn = "as_forward" /\ args.kwargs = NoKwargs) =>
        LET original == heap[args.self]
            items == heap[original.metadata].items
            Entry(key) == IF key \in DOMAIN items THEN items[key] ELSE <<>>
            \* The names as Message.author_name and Message.channel_name give them.
            author_given ==
                IF original.author # None THEN heap[original.author].name
                ELSE Entry("author_name")
            channel_given ==
                IF original.channel # None THEN heap[original.channel].name
                ELSE Entry("channel_name")
            author == IF author_given # <<>> THEN author_given ELSE UnknownAuthor
            chan == IF channel_given # <<>> THEN channel_given ELSE UnknownChannel
        IN  /\ out.raised = ""
            /\ heap[out.val].content = Attribution(author, chan, original.content)
            /\ heap[out.val].forwarded_from = args.self
            /\ heap[out.val].message_type = "forward"
            /\ heap[out.val].channel = args.target_channel

(***************************************************************************)
(* C18, amended: as in C18, except that author_name is the author's name    *)
(* when the message has an author and the metadata entry "author_name"      *)
(* when it has none, "Unknown" replacing an empty result; and channel_name  *)
(* is the channel's name, or the channel's id (even an empty one) when the  *)
(* channel has no name, and for a message without a channel the metadata    *)
(* entry "channel_name", or "unknown" when that is missing or empty.        *)
(***************************************************************************)
C18_ForwardAttributionWithFallbacks ==
    (out.fn = "as_forward" /\ args.kwargs = NoKwargs) =>
        LET original == heap[args.self]
            items == heap[original.metadata].items
            Entry(key) == IF key \in DOMAIN items THEN items[key] ELSE <<>>
            author ==
                IF original.author # None
                THEN IF heap[original.author].name # <<>>
                     THEN heap[original.author].name ELSE UnknownAuthor
                ELSE IF Entry("author_name") # <<>> THEN Entry("author_name") ELSE UnknownAuthor
            chan ==
                IF original.channel # None
                THEN IF heap[original.channel].name # <<>>
                     THEN heap[original.channel].name ELSE heap[original.channel].id
                ELSE IF Entry("channel_name") # <<>> THEN Entry("channel_name") ELSE UnknownChannel
        IN  /\ out.raised = ""
            /\ heap[out.val].content = Attribution(author, chan, original.content)
            /\ heap[out.val].forwarded_from = args.self
            /\ heap[out.val].message_type = "forward"
            /\ heap[out.val].channel = args.target_channel

\* A forwarded message whose channel has an id but no name.
C18_Witness ==
    /\ out.fn = "as_forward"
    /\ args.kwargs = NoKwargs
    /\ heap[args.self].channel = TheChannel
    /\ heap[TheChannel].name = <<>>
    /\ heap[TheChannel].id = <<"c", "1">>
    /\ heap[args.self].author = TheAuthor
    /\ heap[TheAuthor].name = <<"A", "l">>
    /\ heap[args.self].content = <<"a">>
    /\ heap[out.val].content =
          Attribution(<<"A", "l">>, <<"c", "1">>, <<"a">>)

(***************************************************************************)
(* C19: as_quote_reply(content) returns a message whose content is every    *)
(* line of the original content prefixed with "> ", the lines joined with   *)
(* newlines, then one blank line, then the new content; the thread is       *)
(* chosen as in as_thread_reply, reply_to is the original and message_type  *)
(* is REPLY.                                                                *)
(***************************************************************************)
RECURSIVE PrefixAfterNewlines(_)
\* "> " inserted after every newline: with a leading "> ", the quoted text.
PrefixAfterNewlines(s) ==
    IF s = <<>> THEN <<>>
    ELSE (IF Head(s) = "\n" THEN <<"\n", ">", " ">> ELSE <<Head(s)>>)
         \o PrefixAfterNewlines(Tail(s))

C19_AsQuoteReply ==
    (out.fn = "as_quote_reply" /\ args.kwargs = NoKwargs) =>
        LET original == heap[args.self]
            new == heap[out.val]
        IN  /\ out.raised = ""
            /\ new.content =
                  <<">", " ">> \o PrefixAfterNewlines(original.content)
                      \o <<"\n", "\n">> \o args.content
            /\ new.reply_to = args.self
            /\ new.message_type = "reply"
            /\ original.thread # None => new.thread = original.thread
            /\ original.thread = None =>
                  /\ new.thread \notin {None, TheThread}
                  /\ heap[new.thread].id = original.id
                  /\ heap[new.thread].parent_message = args.self

C19_Witness ==
    /\ out.fn = "as_quote_reply"
    /\ args.kwargs = NoKwargs
    /\ heap[args.self].content = <<"a", "\n", "b">>
    /\ heap[out.val].content = <<">", " ", "a", "\n", ">", " ", "b", "\n", "\n", "x">>
    /\ heap[out.val].thread = TheThread

(***************************************************************************)
(* C20: as_dm_to_author(content) fails with a value error, creating no      *)
(* message and no channel, when the original has no author; otherwise the   *)
(* new message's channel is a new DIRECT channel whose users list is        *)
(* exactly the original author, marked incomplete and with an empty id, and *)
(* the new message keeps the original's backend.                            *)
(***************************************************************************)
C20_Step ==
    (out'.fn = "as_dm_to_author" /\ out.fn # "as_dm_to_author" /\ args'.kwargs = NoKwargs) =>
        LET original == heap[args'.self]
        IN  IF original.author = None
            THEN /\ out'.raised = "ValueError"
                 /\ heap' = heap
            ELSE /\ out'.raised = ""
                 /\ heap'[out'.val].kind = original.kind
                 /\ heap'[out'.val].content = args'.content
                 /\ heap'[out'.val].backend = original.backend
                 /\ heap'[out'.val].channel \in DOMAIN heap' \ DOMAIN heap
                 /\ LET dm == heap'[heap'[out'.val].channel]
                    IN  /\ dm.kind = "Channel"
                        /\ dm.channel_type = "direct"
                        /\ dm.users = <<original.author>>
                        /\ dm.is_incomplete
                        /\ dm.id = <<>>

C20_AsDmToAuthor == [][C20_Step]_vars

C20_Witness ==
    /\ out.fn = "as_dm_to_author"
    /\ args.kwargs = NoKwargs
    /\ out.raised = ""
    /\ heap[args.self].author = TheAuthor
    /\ heap[heap[out.val].channel].users = <<TheAuthor>>
    /\ heap[heap[out.val].channel].is_incomplete
    /\ heap[out.val].backend = <<"t", "e", "s", "t">>

(***************************************************************************)
(* C21: every convenience constructor merges keyword overrides on top of    *)
(* its computed defaults: for every field supplied as an override, also one *)
(* the constructor computes itself, the call succeeds and the new message   *)
(* carries the caller's value.  (A call of as_dm_to_author on a message     *)
(* without an author is left aside: it fails for want of an author.)        *)
(***************************************************************************)
ConvenienceConstructors ==
    {"as_reply", "as_thread_reply", "as_forward", "as_quote_reply", "as_dm_to_author"}

C21_OverridesMerged ==
    (/\ out.fn \in ConvenienceConstructors
     /\ ~(out.fn = "as_dm_to_author" /\ heap[args.self].author = None)) =>
        /\ out.raised = ""
        /\ \A f \in DOMAIN args.kwargs : heap[out.val][f] = args.kwargs[f]

(***************************************************************************)
(* C21, amended: an override of a field the constructor does not pass       *)
(* itself is carried by the new message; a call that overrides a field the  *)
(* constructor passes itself (content, channel, reply_to or forwarded_from, *)
(* message_type, backend, and thread in as_thread_reply and as_quote_reply) *)
(* fails with a TypeError and creates no message.                           *)
(***************************************************************************)
PassedByConstructor(fn) ==
    CASE fn = "as_reply" -> {"content", "channel", "reply_to", "message_type", "backend"}
      [] fn \in {"as_thread_reply", "as_quote_reply"} ->
            {"content", "channel", "thread", "reply_to", "message_type", "backend"}
      [] fn = "as_forward" ->
            {"content", "channel", "forwarded_from", "message_type", "backend"}
      [] fn = "as_dm_to_author" -> {"content", "channel", "backend"}

C21_AdditionalOverridesOnly ==
    (/\ out.fn \in ConvenienceConstructors
     /\ ~(out.fn = "as_dm_to_author" /\ heap[args.self].author = None)) =>
        IF DOMAIN args.kwargs \cap PassedByConstructor(out.fn) = {}
        THEN /\ out.raised = ""
             /\ \A f \in DOMAIN args.kwargs : heap[out.val][f] = args.kwargs[f]
        ELSE /\ out.raised = "TypeError"
             /\ out.val = None
             /\ {a \in DOMAIN heap : heap[a].kind \in {"Message", "CustomMessage"}} = {args.self}

C21_Witness ==
    /\ out.fn = "as_reply"
    /\ args.kwargs = [backend |-> <<"s">>]
    /\ out.raised = "TypeError"
    /\ Len(heap) = TheTarget

(***************************************************************************)
(* C22: a convenience constructor called without overrides returns an       *)
(* instance of exactly the class of the message it was called on, with that *)
(* message's backend.                                                       *)
(***************************************************************************)
C22_SubclassPreserved ==
    (out.fn \in ConvenienceConstructors /\ args.kwargs = NoKwargs /\ out.raised = "") =>
        /\ out.val \in DOMAIN heap \ {args.self}
        /\ heap[out.val].kind = heap[args.self].kind
        /\ heap[out.val].backend = heap[args.self].backend

C22_Witness ==
    /\ out.fn = "as_forward"
    /\ args.kwargs = NoKwargs
    /\ heap[args.self].kind = "CustomMessage"
    /\ heap[out.val].kind = "CustomMessage"
    /\ heap[out.val].backend = <<"t", "e", "s", "t">>

(***************************************************************************)
(* A User is constructed and its name, handle and id are assigned           *)
(* afterwards.  An assignment stores the value; the "after" validator is    *)
(* part of construction only.                                               *)
(***************************************************************************)
UserInit ==
    /\ args \in [id : Ids, name : Names, handle : Handles, display_name : DisplayNames]
    /\ user = NoUser
    /\ channel = NoChannel
    /\ backend = <<>>
    /\ content = <<>>
    /\ heap = NoHeap
    /\ out = NoOut

\* User(id=..., name=..., handle=..., display_name=...)
ConstructUser ==
    /\ out = NoOut
    /\ user' = NewUser("User", args.id, args.name, args.handle, <<>>, args.display_name, <<>>)
    /\ out' = [fn |-> "User", val |-> <<>>]
    /\ UNCHANGED <<channel, backend, content, heap, args>>

\* user.name = v, user.handle = v, user.id = v
AssignUserField ==
    /\ out.fn = "User"
    /\ \/ \E v \in Names : user' = [user EXCEPT !.name = v]
       \/ \E v \in Handles : user' = [user EXCEPT !.handle = v]
       \/ \E v \in Ids : user' = [user EXCEPT !.id = v]
    /\ UNCHANGED <<channel, backend, content, heap, args, out>>

UserNext == ConstructUser \/ AssignUserField

UserSpec == UserInit /\ [][UserNext]_vars

TheBdk == 1

SessionId == 7

SymphonyConfigs ==
    { [host |-> h, bot_username |-> <<"b">>, has_rsa_auth |-> r, has_cert_auth |-> c] :
        h \in {<<>>, <<"h">>}, r \in BOOLEAN, c \in {FALSE} }
    \cup {[host |-> <<"h">>, bot_username |-> <<>>, has_rsa_auth |-> FALSE, has_cert_auth |-> TRUE]}

SymphonyIds == {<<"1">>, <<"2">>}

\* The steps of connect() at which the SDK can raise.
ConnectSteps == {"", "BdkConfig", "SymphonyBdk", "sessions", "get_session"}

Result(self, raised, val, sdk) == [self |-> self, raised |-> raised, val |-> val, sdk |-> sdk]

\* SymphonyBackend.connect: `fails` names the SDK step that raises, if any.
SymphonyBackend_connect(self, HAS_SYMPHONY, fails, username) ==
    IF ~HAS_SYMPHONY
    THEN Result(self, "RuntimeError", None, FALSE)
    ELSE IF ~Truthy(self.config.host) \/ ~Truthy(self.config.bot_username)
    THEN Result(self, "RuntimeError", None, FALSE)
    ELSE IF ~self.config.has_rsa_auth /\ ~self.config.has_cert_auth
    THEN Result(self, "RuntimeError", None, FALSE)
    ELSE IF fails = "BdkConfig"
    THEN Result(self, "RuntimeError", None, FALSE)
    ELSE IF fails = "SymphonyBdk"
    THEN Result(self, "RuntimeError", None, TRUE)
    ELSE LET withBdk == [self EXCEPT !.bdk = TheBdk]
         IN  IF fails \in {"sessions", "get_session"}
             THEN Result(withBdk, "RuntimeError", None, TRUE)
             ELSE Result([withBdk EXCEPT
                              !.bot_user_id_int = SessionId,
                              !.bot_user_name_cached = Or(username, self.config.bot_username),
                              !.connected = TRUE],
                         "", None, TRUE)

\* SymphonyBackend.disconnect: an exception of close_clients() is swallowed.
SymphonyBackend_disconnect(self, close_raises) ==
    Result([self EXCEPT !.bdk = None,
                        !.bot_user_id_int = None,
                        !.bot_user_name_cached = <<>>,
                        !.connected = FALSE],
           "", None, self.bdk # None)

\* The operations that start with `if self._bdk is None: raise RuntimeError`.
RaisingOperations ==
    {"fetch_messages", "search_messages", "send_message", "edit_message", "delete_message",
     "forward_message", "set_presence", "create_dm", "create_channel", "stream_messages"}

ReactionOperations == {"add_reaction", "remove_reaction"}

operation_unguarded(self, sdk_raises) ==
    IF sdk_raises
    THEN Result(self, "RuntimeError", None, TRUE)
    ELSE Result(self, "", TheBdk, TRUE)

\* An operation of RaisingOperations: the guard, then the SDK call whose
\* failure is re-raised as a RuntimeError.
operation(self, sdk_raises) ==
    IF self.bdk = None
    THEN Result(self, "RuntimeError", None, FALSE)
    ELSE IF sdk_raises
    THEN Result(self, "RuntimeError", None, TRUE)
    ELSE Result(self, "", TheBdk, TRUE)

\* add_reaction, remove_reaction
reaction(self) == Result(self, "NotImplementedError", None, FALSE)

\* The identifiers a lookup accepts: nothing, an id string, a base object or
\* an object of the backend's own class.
Identifiers ==
    {[kind |-> "None", id |-> <<>>]}
    \cup [kind : {"str", "User", "SymphonyUser"}, id : SymphonyIds]

\* The id a lookup resolves from its identifier and its id= keyword.
resolved_id(identifier, id) ==
    LET id1 == IF identifier.kind = "User" THEN identifier.id ELSE id
    IN  IF identifier.kind # "None" /\ ~Truthy(id1) THEN identifier.id ELSE id1

\* SymphonyBackend.fetch_user and fetch_channel; `cache` is "users" or
\* "channels", `found` whether the SDK lookup by id succeeds (a lookup that
\* raises counts as not found); a lookup by name, email or handle without
\* an id is reduced to its outcome without an id, None.
fetch(self, cache, identifier, id, found) ==
    LET rid == resolved_id(identifier, id)
    IN  IF identifier.kind = "SymphonyUser"
        THEN Result(self, "", identifier.id, FALSE)
        ELSE IF Truthy(rid) /\ rid \in self[cache]
        THEN Result(self, "", rid, FALSE)
        ELSE IF self.bdk = None
        THEN Result(self, "", None, FALSE)
        ELSE IF Truthy(rid)
        THEN IF found
             THEN Result([self EXCEPT ![cache] = @ \cup {rid}], "", rid, TRUE)
             ELSE Result(self, "", None, TRUE)
        ELSE Result(self, "", None, TRUE)

\* get_presence, get_bot_info
optional(self, found) ==
    IF self.bdk = None
    THEN Result(self, "", None, FALSE)
    ELSE Result(self, "", IF found THEN TheBdk ELSE None, TRUE)

NewSymphonyBackend(config) ==
    [bdk |-> None, bot_user_id_int |-> None, bot_user_name_cached |-> <<>>,
     connected |-> FALSE, config |-> config, users |-> {}, channels |-> {}]

SymphonyInit ==
    /\ backend \in {NewSymphonyBackend(c) : c \in SymphonyConfigs}
    /\ args \in [HAS_SYMPHONY : BOOLEAN]
    /\ user = NoUser
    /\ channel = NoChannel
    /\ content = <<>>
    /\ heap = NoHeap
    /\ out = NoOut

Called(fn, r) == [fn |-> fn, raised |-> r.raised, val |-> r.val, sdk |-> r.sdk]

Connect ==
    \E fails \in ConnectSteps, username \in {<<>>, <<"s">>} :
        LET r == SymphonyBackend_connect(backend, args.HAS_SYMPHONY, fails, username)
        IN  /\ backend' = r.self
            /\ out' = Called("connect", r)
            /\ args' = [HAS_SYMPHONY |-> args.HAS_SYMPHONY]
            /\ UNCHANGED <<user, channel, content, heap>>

Disconnect ==
    \E close_raises \in BOOLEAN :
        LET r == SymphonyBackend_disconnect(backend, close_raises)
        IN  /\ backend' = r.self
            /\ out' = Called("disconnect", r)
            /\ args' = [HAS_SYMPHONY |-> args.HAS_SYMPHONY]
            /\ UNCHANGED <<user, channel, content, heap>>

CallOperation ==
    \E fn \in RaisingOperations \cup ReactionOperations \cup {"get_presence", "get_bot_info"},
       sdk \in BOOLEAN :
        LET r == IF fn \in RaisingOperations THEN operation(backend, sdk)
                 ELSE IF fn \in ReactionOperations THEN reaction(backend)
                 ELSE optional(backend, sdk)
        IN  /\ backend' = r.self
            /\ out' = Called(fn, r)
            /\ args' = [HAS_SYMPHONY |-> args.HAS_SYMPHONY]
            /\ UNCHANGED <<user, channel, content, heap>>

Fetch ==
    \E fn \in {"fetch_user", "fetch_channel"}, identifier \in Identifiers,
       id \in {<<>>} \cup SymphonyIds, found \in BOOLEAN :
        LET cache == IF fn = "fetch_user" THEN "users" ELSE "channels"
            r == fetch(backend, cache, identifier, id, found)
        IN  /\ backend' = r.self
            /\ out' = Called(fn, r)
            /\ args' = [HAS_SYMPHONY |-> args.HAS_SYMPHONY, identifier |-> identifier, id |-> id]
            /\ UNCHANGED <<user, channel, content, heap>>

SymphonyNext == Connect \/ Disconnect \/ CallOperation \/ Fetch

SymphonySpec == SymphonyInit /\ [][SymphonyNext]_vars

(***************************************************************************)
(* C24: while the backend holds no SDK handle, the ten operations of        *)
(* RaisingOperations fail with a RuntimeError without calling the SDK,      *)
(* fetch_user and fetch_channel on a cache miss, get_presence and           *)
(* get_bot_info return None without raising, and add_reaction and           *)
(* remove_reaction raise NotImplementedError in every state.                *)
(***************************************************************************)
CacheMiss ==
    /\ args.identifier.kind # "SymphonyUser"
    /\ resolved_id(args.identifier, args.id)
           \notin backend[IF out.fn = "fetch_user" THEN "users" ELSE "channels"]

C24_NoHandle ==
    /\ (out.fn \in RaisingOperations /\ backend.bdk = None) =>
           out.raised = "RuntimeError" /\ ~out.sdk
    /\ (out.fn \in {"fetch_user", "fetch_channel"} /\ backend.bdk = None /\ CacheMiss) =>
           out.raised = "" /\ out.val = None /\ ~out.sdk
    /\ (out.fn \in {"get_presence", "get_bot_info"} /\ backend.bdk = None) =>
           out.raised = "" /\ out.val = None /\ ~out.sdk
    /\ out.fn \in ReactionOperations => out.raised = "NotImplementedError"

\* send_message fails after a disconnect that followed a successful connect.
C24_Witness ==
    /\ out.fn = "send_message"
    /\ backend.bdk = None
    /\ backend.users # {}
    /\ out.raised = "RuntimeError"
    /\ ~out.sdk

(***************************************************************************)
(* C25: after any sequence of connect and disconnect calls the connected    *)
(* flag is true exactly when the backend holds an SDK handle; a failed      *)
(* connect leaves no SDK handle and connected false; disconnect ends with   *)
(* no SDK handle, no cached bot id or name, and connected false.            *)
(***************************************************************************)
C25_ConnectedIffHandle ==
    /\ backend.connected <=> backend.bdk # None
    /\ (out.fn = "connect" /\ out.raised # "") =>
           backend.bdk = None /\ ~backend.connected
    /\ out.fn = "disconnect" =>
           /\ backend.bdk = None
           /\ backend.bot_user_id_int = None
           /\ backend.bot_user_name_cached = <<>>
           /\ ~backend.connected

(***************************************************************************)
(* SymphonyBackend.stream_messages.  In this part `args` holds the          *)
(* arguments of the call, `heap` the locals of the running generator (the   *)
(* collector's bot id, the events the datafeed has delivered, the position  *)
(* of each event's handler, the queue, the datafeed loop and task, and the  *)
(* position of the consumer loop), and `content` the messages yielded so    *)
(* far.  A message is identified by the index of its event in arrival       *)
(* order.                                                                   *)
(***************************************************************************)
MaxEvents == 2

\* stream_start_time, and the timestamps of messages before and after it.
StartTime == 2

Before == 1

After == 3

\* The bot's own id as a string, str(session.id).
BotId == <<"7">>

OtherId == <<"1">>

\* Message-sent events: a message of another user, of the bot, in another
\* stream, from before the start, with a mention in its data, an event
\* without a message, and one without initiator user or timestamp.
Events ==
    { [message |-> TRUE, sender |-> OtherId, stream |-> <<"s">>, timestamp |-> After, mentions |-> 0],
      [message |-> TRUE, sender |-> BotId, stream |-> <<"s">>, timestamp |-> After, mentions |-> 0],
      [message |-> TRUE, sender |-> OtherId, stream |-> <<"t">>, timestamp |-> After, mentions |-> 0],
      [message |-> TRUE, sender |-> OtherId, stream |-> <<"s">>, timestamp |-> Before, mentions |-> 0],
      [message |-> TRUE, sender |-> OtherId, stream |-> <<"s">>, timestamp |-> After, mentions |-> 1],
      [message |-> FALSE, sender |-> OtherId, stream |-> <<>>, timestamp |-> None, mentions |-> 0],
      [message |-> TRUE, sender |-> <<>>, stream |-> <<"s">>, timestamp |-> None, mentions |-> 0] }

\* msg_timestamp: the event's timestamp, or now() when it has none.
msg_timestamp(event) == IF event.timestamp # None THEN event.timestamp ELSE After

on_message_sent_own_by_session(a, bot_id, event) ==
    IF ~event.message \/ ~Truthy(event.stream)
    THEN "returned"
    ELSE IF a.skip_own /\ event.sender = BotId
    THEN "returned"
    ELSE IF Truthy(a.channel) /\ event.stream # a.channel
    THEN "returned"
    ELSE IF event.mentions > 0
    THEN "mentions"
    ELSE IF a.skip_history /\ msg_timestamp(event) < StartTime
    THEN "returned"
    ELSE "channel"

\* MessageCollector.on_message_sent up to its first await: the position the
\* handler reaches ("returned" when the event is dropped).
on_message_sent(a, bot_id, event) ==
    IF ~event.message \/ ~Truthy(event.stream)
    THEN "returned"
    ELSE IF a.skip_own /\ event.sender = bot_id
    THEN "returned"
    ELSE IF Truthy(a.channel) /\ event.stream # a.channel
    THEN "returned"
    ELSE IF event.mentions > 0
    THEN "mentions"
    ELSE IF a.skip_history /\ msg_timestamp(event) < StartTime
    THEN "returned"
    ELSE "channel"

\* on_message_sent resumed after an await: the next position and whether the
\* message is put on the queue.
resume(a, event, pc) ==
    CASE pc = "mentions" ->
            IF a.skip_history /\ msg_timestamp(event) < StartTime THEN "returned" ELSE "channel"
      [] pc = "channel" -> IF Truthy(event.sender) THEN "author" ELSE "put"
      [] pc = "author" -> "put"

finally_stop_only(st) == [st EXCEPT !.consumer = "ended"]

\* The finally block after `await datafeed_loop.stop()`: the task is
\* cancelled and awaited.
finally_cancel(st) ==
    [st EXCEPT !.datafeed = IF @ = "running" THEN "cancelled" ELSE @,
               !.consumer = "ended"]

StreamArgs ==
    [channel : {<<>>, <<"s">>}, skip_own : BOOLEAN, skip_history : BOOLEAN]

ConnectedBackend ==
    [NewSymphonyBackend([host |-> <<"h">>, bot_username |-> <<"b">>,
                         has_rsa_auth |-> TRUE, has_cert_auth |-> FALSE])
        EXCEPT !.bdk = TheBdk, !.bot_user_id_int = SessionId,
               !.bot_user_name_cached = <<"b">>, !.connected = TRUE]

StreamInit ==
    /\ backend = ConnectedBackend
    /\ args \in StreamArgs
    /\ user = NoUser
    /\ channel = NoChannel
    /\ content = <<>>
    /\ heap = NoHeap
    /\ out = NoOut

\* The first __anext__: everything up to asyncio.create_task(datafeed_loop.start());
\* get_bot_info() returns None when its SDK call raises.
StartStream ==
    /\ out = NoOut
    /\ \E bot_info \in BOOLEAN :
          heap' = [bot_id |-> IF bot_info THEN BotId ELSE <<>>,
                   events |-> <<>>, pc |-> <<>>, queue |-> <<>>,
                   loop_running |-> TRUE, datafeed |-> "running",
                   consumer |-> "waiting", closed_by |-> ""]
    /\ out' = [fn |-> "stream_messages", raised |-> "", val |-> None]
    /\ UNCHANGED <<user, channel, backend, content, args>>

Streaming == out.fn = "stream_messages"

\* The datafeed delivers an event and its handler runs to its first await.
EventArrives ==
    /\ Streaming
    /\ heap.loop_running
    /\ heap.datafeed = "running"
    /\ Len(heap.events) < MaxEvents
    /\ \E event \in Events :
          heap' = [heap EXCEPT !.events = Append(@, event),
                               !.pc = Append(@, on_message_sent(args, heap.bot_id, event))]
    /\ UNCHANGED <<user, channel, backend, content, args, out>>

\* The lookup a handler awaits returns and the handler runs to its next
\* await, or puts its message on the queue and returns.
HandlerResumes ==
    /\ Streaming
    /\ \E i \in DOMAIN heap.pc :
          /\ heap.pc[i] \in {"mentions", "channel", "author"}
          /\ LET next == resume(args, heap.events[i], heap.pc[i])
             IN  /\ heap' = IF next = "put"
                            THEN [heap EXCEPT !.pc[i] = "returned", !.queue = Append(@, i)]
                            ELSE [heap EXCEPT !.pc[i] = next]
                 /\ backend' = IF heap.pc[i] = "author"
                               THEN [backend EXCEPT !.users = @ \cup {heap.events[i].sender}]
                               ELSE backend
    /\ UNCHANGED <<user, channel, content, args, out>>

\* datafeed_loop.start() ends with an error of its own.
DatafeedFails ==
    /\ Streaming
    /\ heap.datafeed = "running"
    /\ heap.consumer \in {"waiting", "yielded"}
    /\ heap' = [heap EXCEPT !.datafeed = "failed"]
    /\ UNCHANGED <<user, channel, backend, content, args, out>>

\* message = await wait_for(message_queue.get()); yield message
Yield ==
    /\ Streaming
    /\ heap.consumer = "waiting"
    /\ heap.queue # <<>>
    /\ content' = Append(content, Head(heap.queue))
    /\ heap' = [heap EXCEPT !.queue = Tail(@), !.consumer = "yielded"]
    /\ UNCHANGED <<user, channel, backend, args, out>>

\* The consumer asks for the next message.
Anext ==
    /\ Streaming
    /\ heap.consumer = "yielded"
    /\ heap' = [heap EXCEPT !.consumer = "waiting"]
    /\ UNCHANGED <<user, channel, backend, content, args, out>>

\* aclose() at the yield, or a cancellation raised at the await of the
\* loop: control enters the finally block, which sets stop_event.
StopIterating ==
    /\ Streaming
    /\ \/ /\ heap.consumer = "yielded"
          /\ heap' = [heap EXCEPT !.consumer = "finally", !.closed_by = "aclose"]
          /\ out' = out
       \/ /\ heap.consumer = "waiting"
          /\ heap' = [heap EXCEPT !.consumer = "finally", !.closed_by = "error"]
          /\ out' = [out EXCEPT !.raised = "CancelledError"]
    /\ UNCHANGED <<user, channel, backend, content, args>>

\* await datafeed_loop.stop()
FinallyStop ==
    /\ Streaming
    /\ heap.consumer = "finally"
    /\ heap' = [heap EXCEPT !.loop_running = FALSE, !.consumer = "stopped"]
    /\ UNCHANGED <<user, channel, backend, content, args, out>>

\* datafeed_task.cancel(); await datafeed_task
FinallyCancel ==
    /\ Streaming
    /\ heap.consumer = "stopped"
    /\ heap' = finally_cancel(heap)
    /\ UNCHANGED <<user, channel, backend, content, args, out>>

StreamNext ==
    \/ StartStream
    \/ EventArrives
    \/ HandlerResumes
    \/ DatafeedFails
    \/ Yield
    \/ Anext
    \/ StopIterating
    \/ FinallyStop
    \/ FinallyCancel

StreamSpec == StreamInit /\ [][StreamNext]_vars

\* The call with its default arguments, and one with a channel filter only.
StreamFairInit ==
    /\ StreamInit
    /\ args \in {[channel |-> <<>>, skip_own |-> TRUE, skip_history |-> TRUE],
                 [channel |-> <<"s">>, skip_own |-> FALSE, skip_history |-> FALSE]}

\* Once control is in the finally block the closing caller drives it to its
\* end: each of its awaits returns.
StreamFairSpec ==
    StreamFairInit /\ [][StreamNext]_vars /\ WF_vars(FinallyStop) /\ WF_vars(FinallyCancel)

(***************************************************************************)
(* C26: no yielded message was sent by the bot when skip_own is true, none  *)
(* comes from another stream than the requested channel, none is older      *)
(* than the start of the stream when skip_history is true; and the message  *)
(* of an event that has a message and a stream and passes the enabled       *)
(* filters is, once its handler has returned, on the queue or yielded.      *)
(***************************************************************************)
Passes(event) ==
    /\ event.message
    /\ Truthy(event.stream)
    /\ ~(args.skip_own /\ event.sender = BotId)
    /\ ~(Truthy(args.channel) /\ event.stream # args.channel)
    /\ ~(args.skip_history /\ msg_timestamp(event) < StartTime)

InSeq(x, seq) == \E k \in DOMAIN seq : seq[k] = x

C26_Filters ==
    Streaming =>
        /\ \A k \in DOMAIN content :
              LET event == heap.events[content[k]]
              IN  /\ args.skip_own => event.sender # BotId
                  /\ Truthy(args.channel) => event.stream = args.channel
                  /\ args.skip_history => msg_timestamp(event) >= StartTime
        /\ \A i \in DOMAIN heap.events :
              (Passes(heap.events[i]) /\ heap.pc[i] = "returned") =>
                  InSeq(i, heap.queue) \/ InSeq(i, content)

(***************************************************************************)
(* C27: messages are yielded in the order in which their events arrived,    *)
(* also when several handlers are in progress at the same time.             *)
(***************************************************************************)
C27_ArrivalOrder ==
    Streaming => \A j, k \in DOMAIN content : j < k => content[j] < content[k]

(***************************************************************************)
(* C28: once the datafeed is started the stream ends only after the         *)
(* consumer stopped iterating; when it has ended the datafeed loop is       *)
(* stopped and the datafeed task is not running; and whenever the consumer  *)
(* stops iterating the stream does end that way.                            *)
(***************************************************************************)
Ended ==
    /\ Streaming
    /\ heap.consumer = "ended"
    /\ ~heap.loop_running
    /\ heap.datafeed # "running"

C28_CleanUp ==
    /\ [](Streaming =>
            /\ heap.consumer \in {"finally", "stopped", "ended"} <=> heap.closed_by # ""
            /\ heap.consumer = "ended" => Ended)
    /\ ((Streaming /\ heap.closed_by # "") ~> Ended)

\* The generator was closed while a handler was still waiting for a lookup.
C28_Witness ==
    /\ Ended
    /\ heap.closed_by = "aclose"
    /\ heap.datafeed = "cancelled"
    /\ \E i \in DOMAIN heap.pc : heap.pc[i] = "author"

(***************************************************************************)
(* MockSlackBackend reactions.  In this part `heap` holds the mock's        *)
(* _reactions dict and its _added_reactions and _removed_reactions lists,   *)
(* `args` the arguments of the last call, `out` the call made, and          *)
(* `content` the calls made so far in order, each with the key and emoji    *)
(* it resolved; the latter is history kept for the properties only.         *)
(***************************************************************************)
MaxCalls == 3

Colon == ":"

RECURSIVE lstrip(_, _)
lstrip(str, ch) == IF str # <<>> /\ Head(str) = ch THEN lstrip(Tail(str), ch) ELSE str

RECURSIVE rstrip(_, _)
rstrip(str, ch) ==
    IF str # <<>> /\ str[Len(str)] = ch THEN rstrip(SubSeq(str, 1, Len(str) - 1), ch) ELSE str

\* str.strip(ch)
strip(str, ch) == rstrip(lstrip(str, ch), ch)

\* The (channel_id, message_id) key both calls resolve from their arguments.
reaction_key(message, chan) ==
    IF message.kind = "Message"
    THEN << IF message.channel # <<>> THEN message.channel
            ELSE chan.id,
            message.id >>
    ELSE <<chan.id, message.id>>

\* list.remove(x): the first occurrence is removed.
RECURSIVE remove(_, _)
remove(list, x) ==
    IF list = <<>> THEN <<>>
    ELSE IF Head(list) = x THEN Tail(list)
    ELSE <<Head(list)>> \o remove(Tail(list), x)

\* dict.get(key, [])
MockSlackBackend_get_reactions(self, cid, mid) ==
    IF <<cid, mid>> \in DOMAIN self.reactions THEN self.reactions[<<cid, mid>>] ELSE <<>>

MockSlackBackend_add_reaction_always(self, message, emoji, chan) ==
    LET key == reaction_key(message, chan)
        e == strip(emoji, Colon)
        old == MockSlackBackend_get_reactions(self, key[1], key[2])
    IN  [self EXCEPT !.reactions = (key :> Append(old, e)) @@ @,
                     !.added_reactions = Append(@, <<key[1], key[2], e>>)]

MockSlackBackend_add_reaction(self, message, emoji, chan) ==
    LET key == reaction_key(message, chan)
        e == strip(emoji, Colon)
        old == MockSlackBackend_get_reactions(self, key[1], key[2])
    IN  [self EXCEPT !.reactions = (key :> IF InSeq(e, old) THEN old ELSE Append(old, e)) @@ @,
                     !.added_reactions = Append(@, <<key[1], key[2], e>>)]

MockSlackBackend_remove_reaction(self, message, emoji, chan) ==
    LET key == reaction_key(message, chan)
        e == strip(emoji, Colon)
    IN  [self EXCEPT !.reactions =
                         IF key \in DOMAIN self.reactions /\ InSeq(e, self.reactions[key])
                         THEN [self.reactions EXCEPT ![key] = remove(self.reactions[key], e)]
                         ELSE self.reactions,
                     !.removed_reactions = Append(@, <<key[1], key[2], e>>)]

\* A message given by its ts or as a Message with or without a channel, and
\* a channel given as nothing, an id or a Channel.
ReactionMessages ==
    { [kind |-> "str", id |-> <<"m">>, channel |-> <<>>],
      [kind |-> "Message", id |-> <<"m">>, channel |-> <<>>],
      [kind |-> "Message", id |-> <<"m">>, channel |-> <<"D">>] }

ReactionChannels ==
    { [kind |-> "None", id |-> <<>>], [kind |-> "str", id |-> <<"C">>],
      [kind |-> "Channel", id |-> <<"C">>] }

Emojis == { <<"a">>, <<":", "a", ":">>, <<"b">> }

MockInit ==
    /\ heap = [reactions |-> <<>>, added_reactions |-> <<>>, removed_reactions |-> <<>>]
    /\ user = NoUser
    /\ channel = NoChannel
    /\ backend = <<"s", "l", "a", "c", "k">>
    /\ content = <<>>
    /\ args = NoArgs
    /\ out = NoOut

Calls == Len(heap.added_reactions) + Len(heap.removed_reactions)

AddReaction ==
    /\ Calls < MaxCalls
    /\ \E message \in ReactionMessages, emoji \in Emojis, chan \in ReactionChannels :
          /\ heap' = MockSlackBackend_add_reaction(heap, message, emoji, chan)
          /\ args' = [message |-> message, emoji |-> emoji, channel |-> chan]
          /\ content' = Append(content, <<"add_reaction", reaction_key(message, chan),
                                          strip(emoji, Colon)>>)
    /\ out' = [fn |-> "add_reaction", val |-> None]
    /\ UNCHANGED <<user, channel, backend>>

RemoveReaction ==
    /\ Calls < MaxCalls
    /\ \E message \in ReactionMessages, emoji \in Emojis, chan \in ReactionChannels :
          /\ heap' = MockSlackBackend_remove_reaction(heap, message, emoji, chan)
          /\ args' = [message |-> message, emoji |-> emoji, channel |-> chan]
          /\ content' = Append(content, <<"remove_reaction", reaction_key(message, chan),
                                          strip(emoji, Colon)>>)
    /\ out' = [fn |-> "remove_reaction", val |-> None]
    /\ UNCHANGED <<user, channel, backend>>

MockNext == AddReaction \/ RemoveReaction

MockSpec == MockInit /\ [][MockNext]_vars

(***************************************************************************)
(* C29: after any sequence of add_reaction and remove_reaction calls,       *)
(* get_reactions(channel, message) holds no emoji twice and holds an emoji  *)
(* exactly when the latest call for that channel, message and emoji (names  *)
(* compared without surrounding colons) was add_reaction; and every call    *)
(* appended one entry to added_reactions or removed_reactions.              *)
(***************************************************************************)
ReactionKeys == {reaction_key(m, c) : m \in ReactionMessages, c \in ReactionChannels}

\* The index of the latest call for (key, e), 0 when there was none.
LastCall(key, e) ==
    LET is == {i \in DOMAIN content : content[i][2] = key /\ content[i][3] = e}
    IN  IF is = {} THEN 0 ELSE CHOOSE i \in is : \A j \in is : j <= i

RECURSIVE Entries(_, _)
Entries(calls, fn) ==
    IF calls = <<>> THEN <<>>
    ELSE (IF Head(calls)[1] = fn
          THEN << <<Head(calls)[2][1], Head(calls)[2][2], Head(calls)[3]>> >>
          ELSE <<>>) \o Entries(Tail(calls), fn)

C29_Reactions ==
    /\ \A key \in ReactionKeys :
          LET rs == MockSlackBackend_get_reactions(heap, key[1], key[2])
          IN  /\ \A i, j \in DOMAIN rs : rs[i] = rs[j] => i = j
              /\ \A e \in {strip(x, Colon) : x \in Emojis} :
                    InSeq(e, rs) <=>
                        /\ LastCall(key, e) # 0
                        /\ content[LastCall(key, e)][1] = "add_reaction"
    /\ heap.added_reactions = Entries(content, "add_reaction")
    /\ heap.removed_reactions = Entries(content, "remove_reaction")

\* ":a:" added after "a" for the same message, and an absent emoji removed.
C29_Witness ==
    /\ Len(content) = 3
    /\ content[1] = <<"add_reaction", <<<<"C">>, <<"m">>>>, <<"a">>>>
    /\ content[2][1] = "add_reaction"
    /\ args.emoji = <<"b">>
    /\ out.fn = "remove_reaction"
    /\ MockSlackBackend_get_reactions(heap, <<"C">>, <<"m">>) = << <<"a">> >>
    /\ Len(heap.added_reactions) = 2
    /\ Len(heap.removed_reactions) = 1

(***************************************************************************)
(* Rendering then parsing: Init draws a user, a channel and a backend       *)
(* name; a mention is rendered into `content` and the ids are then          *)
(* extracted from it.                                                       *)
(***************************************************************************)
RoundTripIds ==
    Ids \cup { <<"4", "2">>, <<"U", "1">>, <<"7", "U">>, <<"a">>, <<"\"">>, <<"1", "\"", "2">> }

RoundTripBackends ==
    { <<"d", "i", "s", "c", "o", "r", "d">>, <<"S", "L", "A", "C", "K">>, <<"s", "l", "a", "c", "k">>,
      <<"s", "y", "m", "p", "h", "o", "n", "y">>, <<"S", "y", "m", "p", "h", "o", "n", "y">> }

RoundTripInit ==
    /\ user \in {NewUser(k, i, n, <<>>, <<>>, <<>>, <<>>) :
                    k \in {"User", "SlackUser"}, i \in RoundTripIds, n \in Names}
    /\ channel \in {NewChannel("Channel", i, n) : i \in RoundTripIds, n \in Names}
    /\ backend \in RoundTripBackends
    /\ content = <<>>
    /\ out = NoOut
    /\ heap = NoHeap
    /\ args = NoArgs

RenderUserMention ==
    /\ out = NoOut
    /\ content' = mention_user_for_backend(user, backend)
    /\ out' = [fn |-> "mention_user_for_backend", val |-> content']
    /\ UNCHANGED <<user, channel, backend, heap, args>>

ExtractRenderedUser ==
    /\ out.fn = "mention_user_for_backend"
    /\ out' = [fn |-> "extract_mention_ids", val |-> extract_mention_ids(content, backend)]
    /\ UNCHANGED <<user, channel, backend, content, heap, args>>

RenderChannelMention ==
    /\ out = NoOut
    /\ content' = mention_channel_for_backend(channel, backend)
    /\ out' = [fn |-> "mention_channel_for_backend", val |-> content']
    /\ UNCHANGED <<user, channel, backend, heap, args>>

ExtractRenderedChannel ==
    /\ out.fn = "mention_channel_for_backend"
    /\ out' = [fn |-> "extract_channel_ids", val |-> extract_channel_ids(content, backend)]
    /\ UNCHANGED <<user, channel, backend, content, heap, args>>

RoundTripNext ==
    RenderUserMention \/ ExtractRenderedUser \/ RenderChannelMention \/ ExtractRenderedChannel

RoundTripSpec == RoundTripInit /\ [][RoundTripNext]_vars

(***************************************************************************)
(* C30: for discord, slack and symphony and a user whose id is non-empty    *)
(* and well-formed for the backend (digits for discord, uppercase letters   *)
(* and digits for slack, no double quote for symphony), extracting the      *)
(* mention ids from the rendered mention gives exactly the user's id; the   *)
(* same holds for discord and slack channels.                               *)
(***************************************************************************)
AllIn(str, cls) == \A k \in DOMAIN str : str[k] \in cls

WellFormed(id, b) ==
    /\ id # <<>>
    /\ CASE lower(b) = <<"d", "i", "s", "c", "o", "r", "d">> -> AllIn(id, DigitChars)
         [] lower(b) = <<"s", "l", "a", "c", "k">> -> AllIn(id, UpperChars \cup DigitChars)
         [] OTHER -> \A k \in DOMAIN id : id[k] # "\""

C30_RenderParse ==
    /\ (out.fn = "extract_mention_ids" /\ WellFormed(user.id, backend)) =>
           out.val = <<user.id>>
    /\ (/\ out.fn = "extract_channel_ids"
        /\ lower(backend) \in DOMAIN CHANNEL_MENTION_PATTERNS
        /\ WellFormed(channel.id, backend)) =>
           out.val = <<channel.id>>

C30_Witness ==
    /\ out.fn = "extract_mention_ids"
    /\ backend = <<"S", "y", "m", "p", "h", "o", "n", "y">>
    /\ user.id = <<"7", "U">>
    /\ content = <<"<", "m", "e", "n", "t", "i", "o", "n", " ", "u", "i", "d", "=", "\"",
                   "7", "U", "\"", "/", ">">>
    /\ out.val = << <<"7", "U">> >>

====
